---- MODULE Spec2Model ----
(***************************************************************************)
(* Model of the pressense real-time engine: the MIDI byte decoder          *)
(* (midi::StreamProcessor), the polyphonic voice allocator                 *)
(* (midi::SimpleVoiceAllocator) and the amplitude envelope of its voices   *)
(* (synth::WavetableSynth / synth::AdsrEnvelope).                          *)
(*                                                                         *)
(* Voices are indexed 0..maxVoices-1 as in the std::vector of the source.  *)
(* Envelope levels are fixed-point: LevelOne stands for 1.0f.  Of a voice  *)
(* the model keeps what the allocator and the decoder observe: the         *)
(* amplitude envelope (isActive) and the pitch bend.                       *)
(***************************************************************************)
EXTENDS Integers, Sequences, FiniteSets, TLC

-----------------------------------------------------------------------------
(* Bounds of the model *)

\* Largest pool size (the maxVoices constructor argument) that is explored.
MaxVoices == 2

\* Longest MIDI byte stream fed to the decoder.
MaxBytes == 6

\* Largest number of calls made on the allocator and its voices in AllocSpec.
MaxCalls == 7

\* Fixed-point representation of the envelope level 1.0f.
LevelOne == 2

\* Frames per renderAudio call (BUFFER_FRAMES of the entry points).
BlockFrames == 2

\* Largest number of renderAudio calls made by the audio loop in AppSpec.
MaxBlocks == 2

-----------------------------------------------------------------------------
(* MIDI constants, stream_processor.hpp *)

STATUS_BYTE_MASK == 128
CHANNEL_MASK == 15
COMMAND_MASK == 240
NOTE_ON_COMMAND == 144
NOTE_OFF_COMMAND == 128
POLY_AFTERTOUCH_COMMAND == 160
CONTROL_CHANGE_COMMAND == 176
PROGRAM_CHANGE_COMMAND == 192
PITCH_BEND_COMMAND == 224
SYSTEM_REALTIME_MIN == 248
SYSTEM_REALTIME_MAX == 255

\* The value of a null Synth* (findAllocated found nothing).
nullptr == -1

\* Data bytes that occur in the explored streams: notes, velocities,
\* controller numbers and values, pitch-bend halves.  0 is the velocity that
\* turns a NoteOn into a NoteOff, 64 the pitch-bend centre MSB.  There is one
\* more distinct note than the largest pool has voices.
DataBytes == {0, 64} \cup {59 + k : k \in 1..(MaxVoices - 1)}

\* Notes handed to allocate() in direct calls.
Notes == DataBytes

\* Channel the decoder is constructed with (SynthApplication passes 0).
ListenChannels == {0}

\* Status bytes that occur in the explored streams, for listen channel ch:
\* every channel-voice command on the listen channel, a NoteOn on another
\* channel, SysEx start/end and a real-time clock byte.
StatusBytes(ch) ==
    {NOTE_OFF_COMMAND + ch, NOTE_ON_COMMAND + ch, POLY_AFTERTOUCH_COMMAND + ch,
     CONTROL_CHANGE_COMMAND + ch, PROGRAM_CHANGE_COMMAND + ch, 208 + ch,
     PITCH_BEND_COMMAND + ch, NOTE_ON_COMMAND + ((ch + 1) % 16),
     240, 247, SYSTEM_REALTIME_MIN}

\* Pitch-bend amounts (in 1/8192) passed to setPitchBend in direct
\* forEachVoice calls.
BendInputs == {0, 4096}

Min(S) == CHOOSE x \in S : \A y \in S : x <= y

-----------------------------------------------------------------------------
(* synth::AdsrEnvelope *)

\* Per-sample rates and sustain level of the amplitude envelope, in units of
\* 1/LevelOne: what updateRates() computes, for attack, decay and release
\* times of a few samples.  The sustain level lies strictly between 0 and
\* 1.0f, like the default 0.7f.
attackRate_ == 1
decayRate_ == 1
releaseRate_ == 1
sustainLevel_ == LevelOne - 1

AdsrInit == [phase_ |-> "IDLE", level_ |-> 0]

AdsrTrigger(e) == [phase_ |-> "ATTACK", level_ |-> 0]

AdsrRelease(e) ==
    IF e.phase_ # "IDLE" THEN [e EXCEPT !.phase_ = "RELEASE"] ELSE e

AdsrNextSample(e) ==
    CASE e.phase_ = "ATTACK" ->
            IF e.level_ + attackRate_ >= LevelOne
            THEN [phase_ |-> "DECAY", level_ |-> LevelOne]
            ELSE [e EXCEPT !.level_ = e.level_ + attackRate_]
      [] e.phase_ = "DECAY" ->
            IF e.level_ - decayRate_ <= sustainLevel_
            THEN [phase_ |-> "SUSTAIN", level_ |-> sustainLevel_]
            ELSE [e EXCEPT !.level_ = e.level_ - decayRate_]
      [] e.phase_ = "SUSTAIN" -> [e EXCEPT !.level_ = sustainLevel_]
      [] e.phase_ = "RELEASE" ->
            IF e.level_ - releaseRate_ <= 0
            THEN [phase_ |-> "IDLE", level_ |-> 0]
            ELSE [e EXCEPT !.level_ = e.level_ - releaseRate_]
      [] OTHER -> [e EXCEPT !.level_ = 0]

AdsrIsActive(e) == e.phase_ # "IDLE"

-----------------------------------------------------------------------------
(* synth::WavetableSynth, the concrete midi::Synth *)

SynthInit == [ampEnvelope_ |-> AdsrInit, pitchBend_ |-> 0]

SynthTrigger(s) == [s EXCEPT !.ampEnvelope_ = AdsrTrigger(@)]

SynthRelease(s) == [s EXCEPT !.ampEnvelope_ = AdsrRelease(@)]

SynthIsActive(s) == AdsrIsActive(s.ampEnvelope_)

SynthSetPitchBend(s, bendAmount) == [s EXCEPT !.pitchBend_ = bendAmount]

SynthNextSample(s) ==
    IF ~AdsrIsActive(s.ampEnvelope_) THEN s
    ELSE [s EXCEPT !.ampEnvelope_ = AdsrNextSample(@)]

-----------------------------------------------------------------------------
(* midi::SimpleVoiceAllocator *)

\* The VoiceFactory handed to the constructor: its call number k (from 0)
\* makes a new Synth, the instance k.
voiceFactory(k) ==
    [ampEnvelope_ |-> SynthInit.ampEnvelope_,
     pitchBend_ |-> SynthInit.pitchBend_, instance |-> k]

\* The pool after the constructor: n voices from the factory, none allocated.
AllocatorInit(n) ==
    [i \in 0..(n - 1) |->
        [synth |-> voiceFactory(i), assignedNote |-> 0,
         isAllocated |-> FALSE]]

\* Faulty variant of existingSlot: the loop never matches.
existingSlotMissed(vs, midiNote) == nullptr

\* First loop of allocate(): the slot already allocated to midiNote.
existingSlot(vs, midiNote) ==
    LET hits == {i \in DOMAIN vs :
                    vs[i].isAllocated /\ vs[i].assignedNote = midiNote}
    IN  IF hits = {} THEN nullptr ELSE Min(hits)

\* Faulty variant of firstUnallocated: the last unallocated slot is taken.
firstUnallocatedLast(vs) ==
    LET free == {i \in DOMAIN vs : ~vs[i].isAllocated}
    IN  IF free = {} THEN nullptr
        ELSE CHOOSE x \in free : \A y \in free : y <= x

\* Second loop of allocate(): the first slot that is not allocated.
firstUnallocated(vs) ==
    LET free == {i \in DOMAIN vs : ~vs[i].isAllocated}
    IN  IF free = {} THEN nullptr ELSE Min(free)

\* Faulty variant of firstInactive: inactive voices are not looked for, so
\* that every steal is round-robin.
firstInactiveNone(vs) == nullptr

\* Third loop of allocate(): the first slot whose voice is not active.
firstInactive(vs) ==
    LET idle == {i \in DOMAIN vs : ~SynthIsActive(vs[i].synth)}
    IN  IF idle = {} THEN nullptr ELSE Min(idle)

\* Faulty variant of roundRobinIndex: the index does not advance.
roundRobinStuck(lai, size) == lai % size

\* Round-robin fallback: (lastAllocatedIndex + 1) % voices.size().
roundRobinIndex(lai, size) == (lai + 1) % size

\* allocate(midiNote): the pool and round-robin index afterwards, the index
\* of the voice returned (ret), whether a slot was newly assigned or stolen,
\* and the voices release() was called on, in call order.
allocate(vs, lai, midiNote) ==
    LET hit  == existingSlot(vs, midiNote)
        free == firstUnallocated(vs)
        idle == firstInactive(vs)
        rr   == roundRobinIndex(lai, Cardinality(DOMAIN vs))
        victim == IF idle # nullptr THEN idle ELSE rr
    IN  IF hit # nullptr THEN
            [voices |-> vs, lastAllocatedIndex |-> lai, ret |-> hit,
             assigned |-> FALSE, stole |-> FALSE, released |-> <<>>]
        ELSE IF free # nullptr THEN
            [voices |-> [vs EXCEPT ![free].assignedNote = midiNote,
                                   ![free].isAllocated = TRUE],
             lastAllocatedIndex |-> lai, ret |-> free,
             assigned |-> TRUE, stole |-> FALSE, released |-> <<>>]
        ELSE
            [voices |-> [vs EXCEPT ![victim] =
                            [synth |-> SynthRelease(@.synth),
                             assignedNote |-> midiNote,
                             isAllocated |-> TRUE]],
             lastAllocatedIndex |-> IF idle # nullptr THEN lai ELSE rr,
             ret |-> victim,
             assigned |-> TRUE, stole |-> TRUE, released |-> <<victim>>]

\* allocate(midiNote) on a pool without voices: the three loops find
\* nothing and the round-robin fallback takes a remainder by
\* voices.size() = 0, which is undefined.  The division traps, or it leaves
\* some index and voices[voiceIndex] is outside the pool.
allocateEmpty(vs, lai, midiNote) ==
    {[voices |-> vs, lastAllocatedIndex |-> lai, ret |-> nullptr,
      trapped |-> TRUE]}
        \cup {[voices |-> vs, lastAllocatedIndex |-> voiceIndex,
                ret |-> voiceIndex, trapped |-> FALSE] :
                    voiceIndex \in 0..MaxVoices}

\* Faulty variant of findAllocated: isAllocated is not tested.
findAllocatedAnySlot(vs, midiNote) ==
    LET hits == {i \in DOMAIN vs : vs[i].assignedNote = midiNote}
    IN  IF hits = {} THEN nullptr ELSE Min(hits)

\* findAllocated(midiNote): the voice allocated to the note, or nullptr.
findAllocated(vs, midiNote) ==
    LET hits == {i \in DOMAIN vs :
                    vs[i].isAllocated /\ vs[i].assignedNote = midiNote}
    IN  IF hits = {} THEN nullptr ELSE Min(hits)

forEachVoiceAllocated(vs) ==
    LET all == [k \in 1..Cardinality(DOMAIN vs) |-> k - 1]
        IsAllocated(i) == vs[i].isAllocated
    IN  [k \in 1..Len(SelectSeq(all, IsAllocated)) |->
            vs[SelectSeq(all, IsAllocated)[k]].synth.instance]

\* forEachVoice(func): the Synth instances func is called with, in the
\* order of the calls.
forEachVoice(vs) ==
    [k \in 1..Cardinality(DOMAIN vs) |-> vs[k - 1].synth.instance]

forEachVoiceSetPitchBendAllocated(vs, bendAmount) ==
    [i \in DOMAIN vs |->
        IF vs[i].isAllocated
        THEN [vs[i] EXCEPT !.synth = SynthSetPitchBend(@, bendAmount)]
        ELSE vs[i]]

\* forEachVoice(func) with func = setPitchBend(bendAmount).
forEachVoiceSetPitchBend(vs, bendAmount) ==
    [i \in DOMAIN vs |->
        [vs[i] EXCEPT !.synth = SynthSetPitchBend(@, bendAmount)]]

\* forEachVoice(func) with func = nextSample(): one frame of renderAudio.
forEachVoiceNextSample(vs) ==
    [i \in DOMAIN vs |-> [vs[i] EXCEPT !.synth = SynthNextSample(@)]]

-----------------------------------------------------------------------------
(* midi::StreamProcessor *)

isStatusByte(data) == (data \div STATUS_BYTE_MASK) % 2 # 0

\* Faulty variant of isSystemRealTime: no byte is taken for real-time.
isSystemRealTimeNever(data) == FALSE

\* Faulty variant of isSystemRealTime: every system byte (0xF0..0xFF) is
\* passed over like a real-time byte.
isSystemRealTimeAllSystem(data) == data >= SYSTEM_REALTIME_MIN - 8

isSystemRealTime(data) ==
    data >= SYSTEM_REALTIME_MIN /\ data <= SYSTEM_REALTIME_MAX

\* Faulty variant of extractChannel: every status byte is on channel 0.
extractChannelZero(statusByte) == 0

extractChannel(statusByte) == statusByte % (CHANNEL_MASK + 1)

extractCommand(statusByte) == statusByte - (statusByte % (CHANNEL_MASK + 1))

\* Faulty variant of stateFromCommandByte: every command gets two data bytes.
stateFromCommandByteTwo(command) == "Need2Bytes"

stateFromCommandByte(command) ==
    IF command <= 191 \/ extractCommand(command) = PITCH_BEND_COMMAND
    THEN "Need2Bytes"
    ELSE IF command <= 223 THEN "Need1Byte"
    ELSE "Initial"

\* What one call did besides changing the state: the command of the message
\* it completed (msg, 0 when none), the message's two data bytes (note is
\* messageByte1), the voice allocate()/findAllocated() returned, whether a
\* slot was newly assigned or stolen, the voices on which release() and
\* trigger() were called, in call order, and the application hook invoked.
\* The arguments of the trigger() call are kept as args: the frequency in
\* semitones above 440 Hz and the volume in units of 1/127.  byte is the
\* argument of process(), -1 for calls that take no byte.
NoEvent ==
    [op |-> "process", byte |-> -1, msg |-> 0, note |-> 0, data |-> 0,
     ret |-> nullptr,
     assigned |-> FALSE, stole |-> FALSE, released |-> <<>>,
     triggered |-> <<>>, args |-> <<>>, hook |-> "none"]

\* 440.0f * pow(2.0f, (note - 69) / 12.0f), in semitones above 440 Hz.
frequencyHz(note) == note - 69

\* static_cast<float>(velocity) / 127.0f, in units of 1/127.
volume(velocity) == velocity

\* Faulty variant of noteOffMessage: the voice is looked up but not released.
noteOffWithoutRelease(w, data) ==
    LET note == w.messageByte1
        a == allocate(w.voices, w.lastAllocatedIndex, note)
    IN  [voices |-> a.voices,
         lastAllocatedIndex |-> a.lastAllocatedIndex,
         ev |-> [NoEvent EXCEPT !.msg = NOTE_OFF_COMMAND, !.note = note,
                                !.data = data, !.ret = a.ret,
                                !.assigned = a.assigned, !.stole = a.stole,
                                !.released = a.released]]

\* Faulty variant of noteOnMessage: velocity 0 triggers like any velocity.
noteOnAlwaysTriggers(w, data) ==
    LET note == w.messageByte1
        a == allocate(w.voices, w.lastAllocatedIndex, note)
    IN  [voices |-> [a.voices EXCEPT ![a.ret].synth = SynthTrigger(@)],
         lastAllocatedIndex |-> a.lastAllocatedIndex,
         ev |-> [NoEvent EXCEPT !.msg = NOTE_ON_COMMAND, !.note = note,
                                !.data = data, !.ret = a.ret,
                                !.assigned = a.assigned, !.stole = a.stole,
                                !.released = a.released,
                                !.triggered = <<a.ret>>]]

\* NOTE_ON branch: allocate, then release (velocity 0) or trigger.
noteOnMessage(w, data) ==
    LET note == w.messageByte1
        a == allocate(w.voices, w.lastAllocatedIndex, note)
        ev == [NoEvent EXCEPT !.msg = NOTE_ON_COMMAND, !.note = note,
                              !.data = data, !.ret = a.ret,
                              !.assigned = a.assigned, !.stole = a.stole]
    IN  IF data = 0 THEN
            [voices |-> [a.voices EXCEPT ![a.ret].synth = SynthRelease(@)],
             lastAllocatedIndex |-> a.lastAllocatedIndex,
             ev |-> [ev EXCEPT !.released = Append(a.released, a.ret)]]
        ELSE
            [voices |-> [a.voices EXCEPT ![a.ret].synth = SynthTrigger(@)],
             lastAllocatedIndex |-> a.lastAllocatedIndex,
             ev |-> [ev EXCEPT !.released = a.released,
                               !.triggered = <<a.ret>>,
                               !.args = <<frequencyHz(note), volume(data)>>]]

\* NOTE_OFF branch: allocate, then release; the release velocity is ignored.
noteOffMessage(w, data) ==
    LET note == w.messageByte1
        a == allocate(w.voices, w.lastAllocatedIndex, note)
    IN  [voices |-> [a.voices EXCEPT ![a.ret].synth = SynthRelease(@)],
         lastAllocatedIndex |-> a.lastAllocatedIndex,
         ev |-> [NoEvent EXCEPT !.msg = NOTE_OFF_COMMAND, !.note = note,
                                !.data = data, !.ret = a.ret,
                                !.assigned = a.assigned, !.stole = a.stole,
                                !.released = Append(a.released, a.ret)]]

polyAftertouchMessageAllocates(w, data) ==
    LET a == allocate(w.voices, w.lastAllocatedIndex, w.messageByte1)
    IN  [voices |-> a.voices, lastAllocatedIndex |-> a.lastAllocatedIndex,
         ev |-> [NoEvent EXCEPT !.msg = POLY_AFTERTOUCH_COMMAND,
                                !.note = w.messageByte1, !.data = data,
                                !.ret = a.ret, !.assigned = a.assigned,
                                !.stole = a.stole,
                                !.args = IF w.polyAftertouchCallback
                                         THEN <<w.listenChannel,
                                                w.messageByte1, data, a.ret>>
                                         ELSE <<>>,
                                !.hook = IF w.polyAftertouchCallback
                                         THEN "polyAftertouchCallback"
                                         ELSE "none"]]

\* POLY_AFTERTOUCH branch: the hook, if there is one, gets the listen
\* channel, the note, the pressure and the voice allocated to the note, if
\* there is one.
polyAftertouchMessage(w, data) ==
    LET voice == findAllocated(w.voices, w.messageByte1)
        called == voice # nullptr /\ w.polyAftertouchCallback
    IN  [voices |-> w.voices, lastAllocatedIndex |-> w.lastAllocatedIndex,
         ev |-> [NoEvent EXCEPT !.msg = POLY_AFTERTOUCH_COMMAND,
                                !.note = w.messageByte1, !.data = data,
                                !.ret = voice,
                                !.args = IF called
                                         THEN <<w.listenChannel,
                                                w.messageByte1, data, voice>>
                                         ELSE <<>>,
                                !.hook = IF called
                                         THEN "polyAftertouchCallback"
                                         ELSE "none"]]

\* CONTROL_CHANGE branch (taken only for controller numbers below 120):
\* the hook, if there is one, gets the listen channel, the controller
\* number, the value and the allocator.
controlChangeMessage(w, data) ==
    [voices |-> w.voices, lastAllocatedIndex |-> w.lastAllocatedIndex,
     ev |-> IF w.controlChangeCallback
            THEN [NoEvent EXCEPT !.msg = CONTROL_CHANGE_COMMAND,
                                 !.note = w.messageByte1, !.data = data,
                                 !.args = <<w.listenChannel, w.messageByte1,
                                            data, "synthVoiceAllocator">>,
                                 !.hook = "controlChangeCallback"]
            ELSE [NoEvent EXCEPT !.msg = CONTROL_CHANGE_COMMAND,
                                 !.note = w.messageByte1, !.data = data]]

\* PROGRAM_CHANGE branch.
programChangeMessage(w, data) ==
    [voices |-> w.voices, lastAllocatedIndex |-> w.lastAllocatedIndex,
     ev |-> [NoEvent EXCEPT !.msg = PROGRAM_CHANGE_COMMAND, !.data = data,
                            !.hook = "programChangeCallback"]]

\* PITCH_BEND branch: (msb << 7 | lsb) - 8192, kept in units of 1/8192,
\* broadcast to every voice.
pitchBendMessage(w, data) ==
    LET pitchBendValue == data * 128 + w.messageByte1
    IN  [voices |-> forEachVoiceSetPitchBend(w.voices, pitchBendValue - 8192),
         lastAllocatedIndex |-> w.lastAllocatedIndex,
         ev |-> [NoEvent EXCEPT !.msg = PITCH_BEND_COMMAND,
                                !.note = w.messageByte1, !.data = data]]

completeMessageAnyController(w, data) ==
    CASE w.currentCommand = NOTE_ON_COMMAND -> noteOnMessage(w, data)
      [] w.currentCommand = NOTE_OFF_COMMAND -> noteOffMessage(w, data)
      [] w.currentCommand = POLY_AFTERTOUCH_COMMAND ->
            polyAftertouchMessage(w, data)
      [] w.currentCommand = CONTROL_CHANGE_COMMAND ->
            controlChangeMessage(w, data)
      [] w.currentCommand = PROGRAM_CHANGE_COMMAND ->
            programChangeMessage(w, data)
      [] w.currentCommand = PITCH_BEND_COMMAND -> pitchBendMessage(w, data)
      [] OTHER -> [voices |-> w.voices,
                   lastAllocatedIndex |-> w.lastAllocatedIndex,
                   ev |-> NoEvent]

\* The Need1Byte branch of process(): the last data byte of a message.
completeMessage(w, data) ==
    CASE w.currentCommand = NOTE_ON_COMMAND -> noteOnMessage(w, data)
      [] w.currentCommand = NOTE_OFF_COMMAND -> noteOffMessage(w, data)
      [] w.currentCommand = POLY_AFTERTOUCH_COMMAND ->
            polyAftertouchMessage(w, data)
      [] w.currentCommand = CONTROL_CHANGE_COMMAND /\ w.messageByte1 < 120 ->
            controlChangeMessage(w, data)
      [] w.currentCommand = PROGRAM_CHANGE_COMMAND ->
            programChangeMessage(w, data)
      [] w.currentCommand = PITCH_BEND_COMMAND -> pitchBendMessage(w, data)
      [] OTHER -> [voices |-> w.voices,
                   lastAllocatedIndex |-> w.lastAllocatedIndex,
                   ev |-> NoEvent]

\* Faulty variant of process: a status byte on the listen channel that
\* arrives after the first data byte of a message keeps that byte buffered.
processKeepsPartial(w, ch, data) ==
    IF isSystemRealTime(data) THEN [w |-> w, ev |-> NoEvent]
    ELSE IF isStatusByte(data) THEN
        IF extractChannel(data) # ch
        THEN [w |-> [w EXCEPT !.currentCommand = 0,
                              !.processorState = "Initial"],
              ev |-> NoEvent]
        ELSE [w |-> [w EXCEPT !.currentCommand = extractCommand(data),
                              !.processorState =
                                  IF w.processorState = "Need1Byte"
                                  THEN "Need1Byte"
                                  ELSE stateFromCommandByte(
                                           extractCommand(data))],
              ev |-> NoEvent]
    ELSE IF w.processorState = "Need2Bytes" THEN
        [w |-> [w EXCEPT !.messageByte1 = data,
                         !.processorState = "Need1Byte"],
         ev |-> NoEvent]
    ELSE IF w.processorState = "Need1Byte" THEN
        LET r == completeMessage(w, data)
        IN  [w |-> [w EXCEPT !.voices = r.voices,
                             !.lastAllocatedIndex = r.lastAllocatedIndex,
                             !.processorState =
                                 stateFromCommandByte(w.currentCommand)],
             ev |-> r.ev]
    ELSE [w |-> [w EXCEPT !.processorState =
                              stateFromCommandByte(w.currentCommand)],
          ev |-> NoEvent]

\* process(data) on the decoder and allocator state w with listen channel ch:
\* the state afterwards and the event of the call.
process(w, ch, data) ==
    IF isSystemRealTime(data) THEN [w |-> w, ev |-> NoEvent]
    ELSE IF isStatusByte(data) THEN
        IF extractChannel(data) # ch
        THEN [w |-> [w EXCEPT !.currentCommand = 0,
                              !.processorState = "Initial"],
              ev |-> NoEvent]
        ELSE [w |-> [w EXCEPT !.currentCommand = extractCommand(data),
                              !.processorState =
                                  stateFromCommandByte(extractCommand(data))],
              ev |-> NoEvent]
    ELSE IF w.processorState = "Need2Bytes" THEN
        [w |-> [w EXCEPT !.messageByte1 = data,
                         !.processorState = "Need1Byte"],
         ev |-> NoEvent]
    ELSE IF w.processorState = "Need1Byte" THEN
        LET r == completeMessage(w, data)
        IN  [w |-> [w EXCEPT !.voices = r.voices,
                             !.lastAllocatedIndex = r.lastAllocatedIndex,
                             !.processorState =
                                 stateFromCommandByte(w.currentCommand)],
             ev |-> r.ev]
    ELSE [w |-> [w EXCEPT !.processorState =
                              stateFromCommandByte(w.currentCommand)],
          ev |-> NoEvent]

-----------------------------------------------------------------------------
(* synth::AdsrEnvelope with its parameters and rates.  Times are in
   milliseconds and levels in units of 1/2000, so that the rates
   updateRates() computes for the sample rates and times used here are whole
   numbers. *)

\* The level 1.0f.
One == 2000

\* A time in milliseconds as a number of samples * 1000.
Samples(time, sampleRate) == time * sampleRate

\* AdsrEnvelope::updateRates()
updateRates(e) ==
    [e EXCEPT
        !.attackRate_ =
            IF e.attackTime_ > 0
            THEN (One * 1000) \div Samples(e.attackTime_, e.sampleRate_)
            ELSE One,
        !.decayRate_ =
            IF e.decayTime_ > 0
            THEN ((One - e.sustainLevel_) * 1000)
                    \div Samples(e.decayTime_, e.sampleRate_)
            ELSE One,
        !.releaseRate_ =
            IF e.releaseTime_ > 0
            THEN (e.sustainLevel_ * 1000)
                    \div Samples(e.releaseTime_, e.sampleRate_)
            ELSE One]

\* AdsrEnvelope::AdsrEnvelope(sampleRate): the member initialisers (10 ms,
\* 50 ms, 0.7, 100 ms; rates 0; IDLE, level 0), then updateRates().
AdsrEnvelope(sampleRate) ==
    updateRates([sampleRate_ |-> sampleRate, attackTime_ |-> 10,
                 decayTime_ |-> 50, sustainLevel_ |-> (7 * One) \div 10,
                 releaseTime_ |-> 100, attackRate_ |-> 0, decayRate_ |-> 0,
                 releaseRate_ |-> 0, phase_ |-> "IDLE", level_ |-> 0])

\* AdsrEnvelope::setParameters(attack, decay, sustain, release)
setParameters(e, attack, decay, sustain, release) ==
    updateRates([e EXCEPT !.attackTime_ = attack, !.decayTime_ = decay,
                          !.sustainLevel_ = sustain,
                          !.releaseTime_ = release])

\* AdsrEnvelope::setAttackTime(time)
setAttackTime(e, time) == updateRates([e EXCEPT !.attackTime_ = time])

\* AdsrEnvelope::setDecayTime(time)
setDecayTime(e, time) == updateRates([e EXCEPT !.decayTime_ = time])

\* AdsrEnvelope::setSustainLevel(level): stores the level, nothing else.
setSustainLevel(e, level) == [e EXCEPT !.sustainLevel_ = level]

\* AdsrEnvelope::setReleaseTime(time)
setReleaseTime(e, time) == updateRates([e EXCEPT !.releaseTime_ = time])

\* AdsrEnvelope::trigger()
trigger(e) == [e EXCEPT !.phase_ = "ATTACK", !.level_ = 0]

releaseFromIdle(e) == [e EXCEPT !.phase_ = "RELEASE"]

\* AdsrEnvelope::release()
release(e) ==
    IF e.phase_ # "IDLE" THEN [e EXCEPT !.phase_ = "RELEASE"] ELSE e

\* AdsrEnvelope::nextSample(): the envelope after the call; the value
\* returned is its level_.
nextSample(e) ==
    CASE e.phase_ = "ATTACK" ->
            LET l == e.level_ + e.attackRate_ IN
            IF l >= One
            THEN [e EXCEPT !.level_ = One, !.phase_ = "DECAY"]
            ELSE [e EXCEPT !.level_ = l]
      [] e.phase_ = "DECAY" ->
            LET l == e.level_ - e.decayRate_ IN
            IF l <= e.sustainLevel_
            THEN [e EXCEPT !.level_ = e.sustainLevel_, !.phase_ = "SUSTAIN"]
            ELSE [e EXCEPT !.level_ = l]
      [] e.phase_ = "SUSTAIN" -> [e EXCEPT !.level_ = e.sustainLevel_]
      [] e.phase_ = "RELEASE" ->
            LET l == e.level_ - e.releaseRate_ IN
            IF l <= 0
            THEN [e EXCEPT !.level_ = 0, !.phase_ = "IDLE"]
            ELSE [e EXCEPT !.level_ = l]
      [] OTHER -> [e EXCEPT !.level_ = 0]

\* AdsrEnvelope::isActive()
isActive(e) == e.phase_ # "IDLE"

-----------------------------------------------------------------------------
(* synth::BiquadFilter.  Cutoff frequencies are in half hertz and Q factors
   in thousandths, so that the limits of the setters are whole numbers. *)

Hz(f) == 2 * f

Modes == {"LOWPASS", "HIGHPASS", "BANDPASS", "NOTCH", "ALLPASS"}

\* BiquadFilter::nextMode(mode): the mode after it in the order of the
\* enum, the first one after the last.
filterNextMode(mode) ==
    CASE mode = "LOWPASS" -> "HIGHPASS"
      [] mode = "HIGHPASS" -> "BANDPASS"
      [] mode = "BANDPASS" -> "NOTCH"
      [] mode = "NOTCH" -> "ALLPASS"
      [] OTHER -> "LOWPASS"

\* The coefficients b0_, b1_, b2_, a1_, a2_ that updateCoefficients()
\* computes from a mode, a cutoff and a Q: named by what they are computed
\* from.
Coefficients(mode, cutoffHz, q) == <<mode, cutoffHz, q>>

\* BiquadFilter::updateCoefficients()
updateCoefficients(f) ==
    [f EXCEPT !.coeffs = Coefficients(f.mode_, f.cutoffHz_, f.q_),
              !.coeffsDirty_ = FALSE]

\* BiquadFilter::reset()
filterReset(f) == [f EXCEPT !.z_ = "clear"]

\* BiquadFilter::BiquadFilter(sampleRate): the member initialisers, reset(),
\* updateCoefficients().
BiquadFilter(sampleRate) ==
    updateCoefficients(filterReset(
        [sampleRate_ |-> sampleRate, mode_ |-> "LOWPASS",
         cutoffHz_ |-> Hz(1000), q_ |-> 707,
         coeffs |-> <<"unity">>, z_ |-> "clear", coeffsDirty_ |-> TRUE]))

setModeNotDirty(f, mode) == [f EXCEPT !.mode_ = mode]

\* BiquadFilter::setMode(mode)
setMode(f, mode) ==
    IF f.mode_ # mode
    THEN [f EXCEPT !.mode_ = mode, !.coeffsDirty_ = TRUE]
    ELSE f

\* The limits of setCutoff(): 20 Hz and 0.99 * nyquist.
minCutoff == Hz(20)
maxCutoff(f) == (f.sampleRate_ * 99) \div 100

\* BiquadFilter::setCutoff(frequencyHz)
setCutoff(f, cutoffHz) ==
    LET raised == IF cutoffHz < minCutoff THEN minCutoff ELSE cutoffHz
        clamped == IF raised > maxCutoff(f) THEN maxCutoff(f) ELSE raised
    IN  IF f.cutoffHz_ # clamped
        THEN [f EXCEPT !.cutoffHz_ = clamped, !.coeffsDirty_ = TRUE]
        ELSE f

\* The limits of setQ(): 0.1 and 20.0.
minQ == 100
maxQ == 20000

\* BiquadFilter::setQ(q)
setQ(f, q) ==
    LET clamped == IF q < minQ THEN minQ
                   ELSE IF q > maxQ THEN maxQ
                   ELSE q
    IN  IF f.q_ # clamped
        THEN [f EXCEPT !.q_ = clamped, !.coeffsDirty_ = TRUE]
        ELSE f

processSampleStale(f, input) == [f EXCEPT !.z_ = "run"]

\* BiquadFilter::processSample(input): the filter after the call.  A sample
\* is kept as a bound on its magnitude, 0 being a sample of exactly 0.0f;
\* z_ is "clear" while z1_ and z2_ are both exactly 0.0f, which they stay
\* only as long as the inputs are; the output is computed with the coeffs
\* of the filter returned.
processSample(f, input) ==
    LET g == IF f.coeffsDirty_ THEN updateCoefficients(f) ELSE f
    IN  [g EXCEPT !.z_ = IF input = 0 /\ g.z_ = "clear" THEN "clear"
                         ELSE "run"]

\* BiquadFilter::processSample(input): the value returned,
\* b0_ * input + z1_, which is exactly 0 for an input of 0 on cleared delay
\* elements and the content of z1_ for an input of 0 otherwise.
processSampleOutput(f, input) ==
    IF input = 0 /\ f.z_ = "clear" THEN 0 ELSE One

-----------------------------------------------------------------------------
(* synth::WavetableOscillator and synth::WavetableSynth with their
   parameters.  Shape, amounts, volume and pitch bend are levels (1.0 = One),
   the base cutoff is in half hertz. *)

Clamp(x, lo, hi) == IF x < lo THEN lo ELSE IF x > hi THEN hi ELSE x

\* WavetableOscillator::updateWavetable(shape): wavetable_ is generated
\* from the clamped shape and is named by it.
updateWavetable(o, shape) == [o EXCEPT !.wavetable_ = Clamp(shape, 0, One)]

\* WavetableOscillator::getShape(): the shape of the last updateWavetable().
getShape(o) == o.wavetable_

\* WavetableOscillator::WavetableOscillator(sampleRate)
WavetableOscillator(sampleRate) ==
    updateWavetable([sampleRate_ |-> sampleRate, wavetable_ |-> 0,
                     phase_ |-> 0], 0)

\* WavetableOscillator::reset()
oscillatorReset(o) == [o EXCEPT !.phase_ = 0]

\* WavetableOscillator::nextSample(frequency): phase_ is kept as the number
\* of steps of frequency / sampleRate_ taken since reset(), modulo 4.
oscillatorNextSample(o) == [o EXCEPT !.phase_ = (@ + 1) % 4]

\* One turn of the oscillator phase: phase_ = 1.0f.
PhaseOne == 441

\* WavetableOscillator::TABLE_SIZE
TABLE_SIZE == 256

\* WavetableOscillator::nextSample(frequency) on an oscillator whose phase_
\* is kept in units of 1 / PhaseOne: the oscillator after the call and the
\* two table entries that were read.  One subtraction follows the addition.
wavetableNextSample(o, frequency) ==
    LET tablePos == (o.phase_ * TABLE_SIZE) \div PhaseOne
        index0 == tablePos % TABLE_SIZE
        index1 == (index0 + 1) % TABLE_SIZE
        advanced == o.phase_ + (frequency * PhaseOne) \div o.sampleRate_
    IN  [o |-> [o EXCEPT !.phase_ = IF advanced >= PhaseOne
                                    THEN advanced - PhaseOne
                                    ELSE advanced],
         index0 |-> index0,
         index1 |-> index1]

\* pow(2.0f, k / 12.0f) for k in 0..11, in thousandths.
TwelfthRoots ==
    <<1000, 1059, 1122, 1189, 1260, 1335, 1414, 1498, 1587, 1682, 1782, 1888>>

\* x * pow(2.0f, semitones / 12.0f), for whole semitones.
BendBySemitones(x, semitones) ==
    LET octave == semitones \div 12
        root == TwelfthRoots[(semitones % 12) + 1]
    IN  IF octave >= 0
        THEN (x * root * (2 ^ octave)) \div 1000
        ELSE (x * root) \div (1000 * (2 ^ (0 - octave)))

\* StreamProcessor's NoteOn: 440.0f * pow(2.0f, (note - 69) / 12.0f), in Hz.
noteFrequencyHz(note) == BendBySemitones(440, note - 69)

\* WavetableSynth::nextSample(): the frequency handed to the oscillator,
\* from baseFrequency_, pitchBend_ (a level) and pitchBendRange_ (semitones).
synthFrequency(baseFrequency, pitchBend, pitchBendRange) ==
    LET semitoneShift == (pitchBend * pitchBendRange) \div One
    IN  BendBySemitones(baseFrequency, semitoneShift)

\* WavetableSynth::WavetableSynth(sampleRate)
WavetableSynth(sampleRate) ==
    [sampleRate_ |-> sampleRate,
     oscillator_ |-> WavetableOscillator(sampleRate),
     filter_ |-> setQ(setMode(BiquadFilter(sampleRate), "LOWPASS"), 707),
     ampEnvelope_ |-> AdsrEnvelope(sampleRate),
     filterEnvelope_ |->
        setReleaseTime(
            setSustainLevel(
                setDecayTime(setAttackTime(AdsrEnvelope(sampleRate), 5),
                             200),
                (3 * One) \div 10),
            100),
     baseFrequency_ |-> 440,
     volume_ |-> One,
     pitchBend_ |-> 0,
     baseCutoff_ |-> Hz(1000),
     filterEnvAmount_ |-> One \div 2]

\* WavetableSynth::trigger(frequencyHz, volume)
synthTrigger(v, hz, vol) ==
    [v EXCEPT !.baseFrequency_ = hz,
              !.volume_ = vol,
              !.oscillator_ = oscillatorReset(@),
              !.filter_ = filterReset(@),
              !.ampEnvelope_ = trigger(@),
              !.filterEnvelope_ = trigger(@)]

\* WavetableSynth::release()
synthRelease(v) ==
    [v EXCEPT !.ampEnvelope_ = release(@), !.filterEnvelope_ = release(@)]

\* WavetableSynth::setPitchBend(bendAmount)
setPitchBend(v, bendAmount) == [v EXCEPT !.pitchBend_ = bendAmount]

\* WavetableSynth::setBaseCutoff(cutoff)
setBaseCutoff(v, cutoff) == [v EXCEPT !.baseCutoff_ = cutoff]

\* WavetableSynth::setFilterEnvelopeAmount(amount)
setFilterEnvelopeAmount(v, amount) ==
    [v EXCEPT !.filterEnvAmount_ = Clamp(amount, 0, One)]

\* WavetableSynth::isActive()
synthIsActive(v) == isActive(v.ampEnvelope_)

synthNextSampleAlways(v) ==
    [v |-> [v EXCEPT !.oscillator_ = oscillatorNextSample(@),
                     !.filterEnvelope_ = nextSample(@),
                     !.filter_ = processSample(@, One),
                     !.ampEnvelope_ = nextSample(@)],
     gain |-> v.volume_]

\* WavetableSynth::nextSample(): the voice after the call and the gain
\* (amplitude envelope level * volume_, in units of 1 / One^2) applied to
\* the filtered oscillator sample; a gain of 0 is a sample of exactly 0.
synthNextSample(v) ==
    IF ~isActive(v.ampEnvelope_)
    THEN [v |-> v, gain |-> 0]
    ELSE LET filterEnvelope == nextSample(v.filterEnvelope_)
             envModulation == filterEnvelope.level_ * v.filterEnvAmount_
             modulatedCutoff ==
                v.baseCutoff_
                    + (v.baseCutoff_ * ((envModulation * 9) \div One))
                        \div One
             ampEnvelope == nextSample(v.ampEnvelope_)
         IN  [v |-> [v EXCEPT
                        !.oscillator_ = oscillatorNextSample(@),
                        !.filterEnvelope_ = filterEnvelope,
                        !.filter_ =
                            processSample(setCutoff(@, modulatedCutoff), One),
                        !.ampEnvelope_ = ampEnvelope],
              gain |-> ampEnvelope.level_ * v.volume_]

-----------------------------------------------------------------------------
(* midi::ProgramData, applyProgramToVoices and the program storages *)

\* BiquadFilter::Mode of the integer a program stores.
ModeOf(filterMode) ==
    <<"LOWPASS", "HIGHPASS", "BANDPASS", "NOTCH", "ALLPASS">>[filterMode + 1]

\* static_cast<int>(mode): the place of the mode in the enum.
ModeInt(mode) ==
    CHOOSE filterMode \in 0..4 : ModeOf(filterMode) = mode

\* ProgramData: the member initialisers.
ProgramData ==
    [waveformShape |-> 0, baseCutoff |-> Hz(1000), filterQ |-> 707,
     filterMode |-> 0, filterEnvAmount |-> One \div 2,
     filterEnvAttack |-> 5, filterEnvDecay |-> 200,
     filterEnvSustain |-> (3 * One) \div 10, filterEnvRelease |-> 100]

\* ProgramData::captureFromVoices, for one voice: the parameters a program
\* holds, as the voice's getters return them.
captureFromVoice(v) ==
    [waveformShape |-> getShape(v.oscillator_),
     baseCutoff |-> v.baseCutoff_,
     filterQ |-> v.filter_.q_,
     filterMode |-> ModeInt(v.filter_.mode_),
     filterEnvAmount |-> v.filterEnvAmount_,
     filterEnvAttack |-> v.filterEnvelope_.attackTime_,
     filterEnvDecay |-> v.filterEnvelope_.decayTime_,
     filterEnvSustain |-> v.filterEnvelope_.sustainLevel_,
     filterEnvRelease |-> v.filterEnvelope_.releaseTime_]

\* applyProgramToVoices(program, allocator), for one voice
applyProgramToVoice(program, v) ==
    [v EXCEPT
        !.oscillator_ = updateWavetable(@, program.waveformShape),
        !.baseCutoff_ = program.baseCutoff,
        !.filter_ = setMode(setQ(@, program.filterQ),
                            ModeOf(program.filterMode)),
        !.filterEnvAmount_ = Clamp(program.filterEnvAmount, 0, One),
        !.filterEnvelope_ =
            setReleaseTime(
                setSustainLevel(
                    setDecayTime(
                        setAttackTime(@, program.filterEnvAttack),
                        program.filterEnvDecay),
                    program.filterEnvSustain),
                program.filterEnvRelease)]

\* applyProgramToVoices(program, allocator): forEachVoice over the pool
applyProgramToVoices(program, pool) ==
    [i \in DOMAIN pool |-> applyProgramToVoice(program, pool[i])]

\* ProgramData::captureFromVoices(allocator) on a ProgramData: the first
\* voice that forEachVoice visits is captured, no voice leaves it as it is.
captureFromVoices(program, pool) ==
    IF DOMAIN pool = {} THEN program ELSE captureFromVoice(pool[0])

\* A JSON number is a double: a float converts to one exactly, and a double
\* converts to the nearest float.  DoubleSteps doubles lie in one step of
\* this model's floats.
DoubleSteps == 4
Widen(x) == x * DoubleSteps
Narrow(y) == (y + DoubleSteps \div 2) \div DoubleSteps

\* to_json(j, p): the object with the nine keys.
to_json(p) ==
    [waveformShape |-> Widen(p.waveformShape),
     baseCutoff |-> Widen(p.baseCutoff),
     filterQ |-> Widen(p.filterQ),
     filterMode |-> p.filterMode,
     filterEnvAmount |-> Widen(p.filterEnvAmount),
     filterEnvAttack |-> Widen(p.filterEnvAttack),
     filterEnvDecay |-> Widen(p.filterEnvDecay),
     filterEnvSustain |-> Widen(p.filterEnvSustain),
     filterEnvRelease |-> Widen(p.filterEnvRelease)]

\* j.value(key, default) for a float and for an int default
valueFloat(j, key, default) ==
    IF key \in DOMAIN j THEN Narrow(j[key]) ELSE default
valueInt(j, key, default) ==
    IF key \in DOMAIN j THEN j[key] ELSE default

from_jsonModeKey(j) ==
    [waveformShape |-> valueFloat(j, "waveformShape", 0),
     baseCutoff |-> valueFloat(j, "baseCutoff", Hz(1000)),
     filterQ |-> valueFloat(j, "filterQ", 707),
     filterMode |-> valueInt(j, "mode", 0),
     filterEnvAmount |-> valueFloat(j, "filterEnvAmount", One \div 2),
     filterEnvAttack |-> valueFloat(j, "filterEnvAttack", 5),
     filterEnvDecay |-> valueFloat(j, "filterEnvDecay", 200),
     filterEnvSustain |-> valueFloat(j, "filterEnvSustain", (3 * One) \div 10),
     filterEnvRelease |-> valueFloat(j, "filterEnvRelease", 100)]

\* from_json(j, p): each member from its key, or the default of a key that
\* is missing.
from_json(j) ==
    [waveformShape |-> valueFloat(j, "waveformShape", 0),
     baseCutoff |-> valueFloat(j, "baseCutoff", Hz(1000)),
     filterQ |-> valueFloat(j, "filterQ", 707),
     filterMode |-> valueInt(j, "filterMode", 0),
     filterEnvAmount |-> valueFloat(j, "filterEnvAmount", One \div 2),
     filterEnvAttack |-> valueFloat(j, "filterEnvAttack", 5),
     filterEnvDecay |-> valueFloat(j, "filterEnvDecay", 200),
     filterEnvSustain |-> valueFloat(j, "filterEnvSustain", (3 * One) \div 10),
     filterEnvRelease |-> valueFloat(j, "filterEnvRelease", 100)]

loadProgramKeepsVoices(file, pool) ==
    IF ~file.opens \/ ~file.parses
    THEN [synths |-> pool, ret |-> FALSE]
    ELSE [synths |-> applyProgramToVoices(file.data, pool), ret |-> TRUE]

\* FilesystemProgramStorage::loadProgram(program, allocator), for the file
\* of the program: whether it opens, whether reading it into a ProgramData
\* succeeds (it throws otherwise), and the ProgramData it then gives.
loadProgram(file, pool) ==
    IF ~file.opens
    THEN [synths |-> applyProgramToVoices(ProgramData, pool), ret |-> FALSE]
    ELSE IF ~file.parses
    THEN [synths |-> applyProgramToVoices(ProgramData, pool), ret |-> FALSE]
    ELSE [synths |-> applyProgramToVoices(file.data, pool), ret |-> TRUE]

\* SynthApplication::handleCC(channel, cc, value, allocator), for the
\* controllers of the oscillator shape (1), the base cutoff (20), Q (21) and
\* the filter envelope's sustain level (25), and for the values 0 and 127,
\* where normalized is 0.0 and 1.0; any other controller here is one
\* handleCC ignores.
handleCC(pool, cc, value) ==
    LET normalized == IF value = 127 THEN One ELSE 0 IN
    [i \in DOMAIN pool |->
        CASE cc = 1 ->
                [pool[i] EXCEPT
                    !.oscillator_ = updateWavetable(@, normalized)]
          [] cc = 20 ->
                setBaseCutoff(pool[i],
                    IF normalized = 0 THEN Hz(100) ELSE Hz(10000))
          [] cc = 21 ->
                [pool[i] EXCEPT
                    !.filter_ = setQ(@, 100 + (normalized * 19900) \div One)]
          [] cc = 25 ->
                [pool[i] EXCEPT
                    !.filterEnvelope_ = setSustainLevel(@, normalized)]
          [] cc = 96 /\ value * 2 > 127 ->
                [pool[i] EXCEPT
                    !.filter_ = setMode(@, filterNextMode(pool[0].filter_.mode_))]
          [] OTHER -> pool[i]]

-----------------------------------------------------------------------------
(* The output stage: synth::OutputProcessor as SynthApplication uses it *)

\* OutputProcessor::setDrive(drive)
setDrive(p, drive) == [p EXCEPT !.drive_ = Clamp(drive, 0, One)]

\* TanhClipper, WaveFolderClipper and SoftWaveFolderClipper, processBuffer
\* for one sample: tanh(0 * drive), wavefold(0 * drive) and
\* tanh(3 * wavefold(0 * drive)) / tanh(3) are exactly 0, every other
\* output is bounded by 1.
waveshape(index, x) == IF x = 0 THEN 0 ELSE One

\* The output processor of SynthApplication, outputProcessor_(0.5f,
\* sampleRate): the drive, the active waveshaper and the post-filter, a
\* low-pass of 10 kHz and Q 0.707.
OutputProcessor(drive, sampleRate) ==
    [drive_ |-> drive, activeIndex_ |-> 0,
     postFilter_ |->
        setQ(setCutoff(setMode(BiquadFilter(sampleRate), "LOWPASS"),
                       Hz(10000)),
             707)]

\* nextMode(): the next of the three waveshapers; the switch resets the
\* delay lines of the post-filter.
nextMode(p) ==
    [p EXCEPT !.activeIndex_ = (@ + 1) % 3,
              !.postFilter_ = filterReset(@)]

\* processBuffer(buffer, numFrames), for one frame: the active waveshaper,
\* then the post-filter; the processor after the call and the sample left
\* in the buffer.
processBuffer(p, x) ==
    LET shaped == waveshape(p.activeIndex_, x)
    IN  [p |-> [p EXCEPT !.postFilter_ = processSample(@, shaped)],
         sample |->
            processSampleOutput(
                IF p.postFilter_.coeffsDirty_
                THEN updateCoefficients(p.postFilter_) ELSE p.postFilter_,
                shaped)]

\* SynthApplication::handleCC(channel, cc, value, allocator): what it does
\* to outputProcessor_ (drive, post-filter resonance, waveshaper).
handleCCOutput(p, cc, value) ==
    CASE cc = 74 -> setDrive(p, (value * One) \div 127)
      [] cc = 63 ->
            [p EXCEPT !.postFilter_ = setQ(@, 100 + (value * 19900) \div 127)]
      [] cc = 102 /\ value * 2 > 127 -> nextMode(p)
      [] OTHER -> p

\* The sum of the samples of the voices i..(n - 1) of a frame.
RECURSIVE SumFrom(_, _, _)
SumFrom(samples, i, n) ==
    IF i >= n THEN 0 ELSE samples[i] + SumFrom(samples, i + 1, n)

\* SynthApplication::renderAudio(buffer, numFrames), for one frame: every
\* voice's nextSample() in the order of forEachVoice, the sum, the output
\* processor.
renderAudio(pool, p) ==
    LET n == Cardinality(DOMAIN pool)
        rendered == [i \in DOMAIN pool |-> synthNextSample(pool[i])]
        samples == [i \in DOMAIN pool |-> rendered[i].gain]
        mono == SumFrom(samples, 0, n)
        processed == processBuffer(p, mono)
    IN  [synths |-> [i \in DOMAIN pool |-> rendered[i].v],
         samples |-> samples, mono |-> mono,
         p |-> processed.p, out |-> processed.sample]

-----------------------------------------------------------------------------
(* linux::PresetClipboard and the clipboard controllers of SynthApplication *)

\* PresetClipboard::PresetClipboard()
PresetClipboard == [clipboard_ |-> ProgramData, hasData_ |-> FALSE]

\* PresetClipboard::copy(allocator)
copy(c, pool) ==
    [clipboard_ |-> captureFromVoices(c.clipboard_, pool), hasData_ |-> TRUE]

\* PresetClipboard::paste(allocator): the pool afterwards and what the call
\* returned.
paste(c, pool) ==
    IF ~c.hasData_
    THEN [synths |-> pool, ret |-> FALSE]
    ELSE [synths |-> applyProgramToVoices(c.clipboard_, pool), ret |-> TRUE]

\* FilesystemProgramStorage::saveProgram(program, allocator): the programs
\* written, one when the directories exist and the file opens.
saveProgram(program, pool, opens) ==
    IF opens THEN {program} ELSE {}

\* PresetClipboard::pasteAndSave(allocator, program, storage): the pool
\* afterwards and the programs written.
pasteAndSave(c, pool, program, opens) ==
    LET pasted == paste(c, pool)
    IN  IF ~pasted.ret
        THEN [synths |-> pool, written |-> {}]
        ELSE [synths |-> pasted.synths,
              written |-> saveProgram(program, pasted.synths, opens)]

programProtectedNone(program) == FALSE

\* handleCC, case 104: program 1 is protected.
programProtected(program) == program = 1

\* SynthApplication::SynthApplication with a program storage or none, then
\* setClipboard() with a new PresetClipboard or no clipboard (clipboardSet
\* tells which; clipboard_ is the PresetClipboard).
SynthApplication(storage, clipboard) ==
    [currentProgram_ |-> 1, programStorage_ |-> storage,
     clipboardSet |-> clipboard, clipboard_ |-> PresetClipboard]

\* SynthApplication::handleCC, cases 103 and 104, for a value above 0.5 and
\* a clipboard that is set: the application and the pool afterwards and
\* the programs written.
handleCCClipboard(a, pool, cc, opens) ==
    CASE cc = 103 ->
            [a |-> [a EXCEPT !.clipboard_ = copy(@, pool)],
             synths |-> pool, written |-> {}]
      [] cc = 104 /\ programProtected(a.currentProgram_) ->
            [a |-> a, synths |-> pool, written |-> {}]
      [] cc = 104 /\ a.programStorage_ ->
            [a |-> a,
             synths |-> pasteAndSave(a.clipboard_, pool, a.currentProgram_,
                                     opens).synths,
             written |-> pasteAndSave(a.clipboard_, pool, a.currentProgram_,
                                      opens).written]
      [] cc = 104 ->
            [a |-> a, synths |-> paste(a.clipboard_, pool).synths,
             written |-> {}]
      [] OTHER -> [a |-> a, synths |-> pool, written |-> {}]

-----------------------------------------------------------------------------
(* midi::MidiKeyboardController.  A baseline is kept in units of
   1 / BaselineOne of a reading, a threshold in tenths. *)

CALIBRATION_SCANS == 100
NOTE_ON_THRESHOLD == 12
NOTE_OFF_THRESHOLD == 11
AFTERTOUCH_DEADBAND == 2
BaselineOne == 1000

\* The keys of the scanner: getKeyCount() of them.
Keys == {0, 1}

\* MidiKeyboardController::MidiKeyboardController(scanner, midiCallback,
\* telemetrySink, baseNote, fixedVelocity)
MidiKeyboardController(baseNote, fixedVelocity) ==
    [baseNote_ |-> baseNote,
     fixedVelocity_ |-> fixedVelocity,
     calibrationCount_ |-> 0,
     isCalibrated_ |-> FALSE,
     calibrationSums_ |-> [i \in Keys |-> 0],
     baselines_ |-> [i \in Keys |-> 0],
     keyStates_ |-> [i \in Keys |-> FALSE],
     lastAftertouch_ |-> [i \in Keys |-> 0]]

\* setBaseNote(baseNote)
setBaseNote(k, baseNote) == [k EXCEPT !.baseNote_ = baseNote % 128]

\* ratio >= threshold and ratio < threshold for ratio = reading / baseline:
\* with a baseline of 0 the ratio is infinite, or not a number when the
\* reading is 0 too, and then no comparison holds.
ratioAtLeast(reading, baseline, threshold) ==
    IF baseline = 0 THEN reading > 0
    ELSE reading * BaselineOne * 10 >= threshold * baseline
ratioBelow(reading, baseline, threshold) ==
    IF baseline = 0 THEN FALSE
    ELSE reading * BaselineOne * 10 < threshold * baseline

\* sendNoteOn, sendNoteOff, sendPolyAftertouch: the three bytes handed to
\* midiCallback_, with the key they are sent for.
sendNoteOn(key, note, velocity) ==
    [key |-> key, bytes |-> <<144, note % 128, velocity % 128>>]
sendNoteOff(key, note) ==
    [key |-> key, bytes |-> <<128, note % 128, 0>>]
sendPolyAftertouch(key, note, pressure) ==
    [key |-> key, bytes |-> <<160, note % 128, pressure % 128>>]

\* processKey: the baseline after the exponential moving average
trackBaseline(baseline, reading) ==
    (baseline * (BaselineOne - 1) + reading * BaselineOne) \div BaselineOne

\* processKey: the aftertouch value of a reading,
\* (ratio - NOTE_OFF_THRESHOLD) / (2 - NOTE_OFF_THRESHOLD) clamped to [0, 1]
\* and scaled to 0..127.
aftertouchOf(reading, baseline) ==
    IF baseline = 0 THEN 127
    ELSE Clamp(((reading * BaselineOne * 10 - NOTE_OFF_THRESHOLD * baseline)
                    * 127) \div ((20 - NOTE_OFF_THRESHOLD) * baseline),
               0, 127)

noteOffNoHysteresis(reading, baseline) ==
    ratioBelow(reading, baseline, NOTE_ON_THRESHOLD)

\* processKey: the test that ends a note, ratio < NOTE_OFF_THRESHOLD
noteOff(reading, baseline) ==
    ratioBelow(reading, baseline, NOTE_OFF_THRESHOLD)

\* processKey(keyIndex, reading): the controller afterwards and the
\* messages sent.
processKey(k, keyIndex, reading) ==
    LET baseline == k.baselines_[keyIndex]
        midiNote == (k.baseNote_ + keyIndex) % 256
        aftertouch == aftertouchOf(reading, baseline)
        moved == aftertouch - k.lastAftertouch_[keyIndex]
    IN  IF ~k.keyStates_[keyIndex]
        THEN IF ratioAtLeast(reading, baseline, NOTE_ON_THRESHOLD)
             THEN [k |-> [k EXCEPT !.keyStates_[keyIndex] = TRUE,
                                   !.lastAftertouch_[keyIndex] = 0],
                   out |-> <<sendNoteOn(keyIndex, midiNote,
                                        k.fixedVelocity_)>>]
             ELSE [k |-> [k EXCEPT !.baselines_[keyIndex] =
                                        trackBaseline(baseline, reading)],
                   out |-> <<>>]
        ELSE IF noteOff(reading, baseline)
             THEN [k |-> [k EXCEPT !.keyStates_[keyIndex] = FALSE,
                                   !.baselines_[keyIndex] =
                                        trackBaseline(baseline, reading)],
                   out |-> <<sendNoteOff(keyIndex, midiNote)>>]
             ELSE IF moved > AFTERTOUCH_DEADBAND
                        \/ 0 - moved > AFTERTOUCH_DEADBAND
             THEN [k |-> [k EXCEPT !.lastAftertouch_[keyIndex] = aftertouch],
                   out |-> <<sendPolyAftertouch(keyIndex, midiNote,
                                                aftertouch)>>]
             ELSE [k |-> k, out |-> <<>>]

\* processScan(): the loop over the keys from keyIndex on
RECURSIVE processKeys(_, _, _)
processKeys(k, readings, keyIndex) ==
    IF keyIndex \notin Keys THEN [k |-> k, out |-> <<>>]
    ELSE LET one == processKey(k, keyIndex, readings[keyIndex])
             rest == processKeys(one.k, readings, keyIndex + 1)
         IN  [k |-> rest.k, out |-> one.out \o rest.out]

calibratedLate(count) == count > CALIBRATION_SCANS

\* processScan(): the test that ends the calibration
calibrated(count) == count >= CALIBRATION_SCANS

\* processScan() with the readings of the scanner: the controller
\* afterwards and the messages sent.
processScan(k, readings) ==
    IF ~k.isCalibrated_
    THEN LET sums == [i \in Keys |-> k.calibrationSums_[i] + readings[i]]
             count == k.calibrationCount_ + 1
         IN  [k |-> [k EXCEPT
                        !.calibrationSums_ = sums,
                        !.calibrationCount_ = count,
                        !.baselines_ =
                            IF calibrated(count)
                            THEN [i \in Keys |->
                                    (sums[i] * BaselineOne)
                                        \div CALIBRATION_SCANS]
                            ELSE @,
                        !.isCalibrated_ = calibrated(count)],
              out |-> <<>>]
    ELSE processKeys(k, readings, 0)

-----------------------------------------------------------------------------
(* State *)

VARIABLES
    listenChannel,       \* StreamProcessor::listenChannel
    processorState,      \* StreamProcessor::processorState
    currentCommand,      \* StreamProcessor::currentCommand
    messageByte1,        \* StreamProcessor::messageByte1
    voices,              \* SimpleVoiceAllocator::voices
    lastAllocatedIndex,  \* SimpleVoiceAllocator::lastAllocatedIndex
    last,                \* the event of the last call
    numBytes,            \* bytes fed to process() so far
    numNoteOn,           \* complete NoteOn messages with velocity > 0 so far
    numAssigned,         \* slots newly assigned (free taken or stolen) so far
    numCalls,            \* direct calls on the allocator and voices so far
    assignedBy,          \* per slot: note of the allocate() that last assigned it
    notesRequested,      \* notes passed to allocate() so far
    voicesReturned,      \* voices returned by allocate() so far
    stealRun,            \* slots stolen by consecutive steals, all voices active
    dataRun,             \* data bytes since the last non-real-time status byte
    msgRun,              \* messages acted on since that status byte
    prevData,            \* the last data byte since that status byte, or -1
    interrupted,         \* that status byte arrived in the middle of a message
    lastStatus,          \* that status byte, or -1 before the first one
    entryPoint,          \* the app_main that runs: "linux", "keyboard", "arpeggio"
    audioPc,             \* audio loop: "midi" (outside renderAudio) or "render"
    frame,               \* frames of the current block already mixed
    numBlocks,           \* renderAudio calls so far
    blockStart,          \* voices when the current renderAudio call began
    arpPc,               \* ArpeggioTask::run: index of the next byte of the note
    currentNote,         \* ArpeggioTask::run: currentNote
    processedBy,         \* thread that made the last process() call
    loadedBy,            \* thread that last ran loadProgram in the audio loop
    heapOps,             \* heap allocations and frees since construction
    env,                 \* an AdsrEnvelope used on its own
    envOp,               \* the last call made on env
    filter,              \* a BiquadFilter used on its own
    filterOp,            \* the last call made on filter
    filteredWith,        \* the coefficients the last processSample() used
    synths,              \* a pool of WavetableSynth voices with their parts
    synthsBefore,        \* the pool before the last loadProgram() call,
                         \* or before the last call when frames are rendered
    loadRet,             \* what the last loadProgram() call returned
    appOp,               \* the last call made on the pool
    outputProcessor,     \* SynthApplication::outputProcessor_
    voiceSamples,        \* what each voice's nextSample() returned last
    monoSample,          \* monoBuffer_[frame] before processBuffer()
    outSample,           \* monoBuffer_[frame] after processBuffer()
    controlChangeCallback, \* StreamProcessor::controlChangeCallback holds
                           \* a function
    polyAftertouchCallback, \* StreamProcessor::polyAftertouchCallback holds
                            \* a function
    oscillator,          \* a WavetableOscillator used on its own
    oscOp,               \* the last call made on oscillator
    oscFrequency,        \* the frequency of the last nextSample(frequency)
    oscRead,             \* the table entries that call read
    kbd,                 \* a MidiKeyboardController
    kbdOp,               \* the last call made on kbd
    kbdReadings,         \* the readings of the last processScan()
    midiOut,             \* the messages the last processScan() sent
    keyLast,             \* per key: the last NoteOn or NoteOff sent for it
    numScans,            \* processScan() calls so far
    app,                 \* SynthApplication: currentProgram_, whether it has
                         \* a program storage, and its clipboard
    saved,               \* the programs saveProgram() has written
    copySeen             \* a controller 103 message has been handled

vars == <<listenChannel, processorState, currentCommand, messageByte1, voices,
          lastAllocatedIndex, last, numBytes, numNoteOn, numAssigned,
          numCalls, assignedBy, notesRequested, voicesReturned, stealRun,
          dataRun, msgRun, prevData, interrupted, lastStatus, entryPoint,
          audioPc, frame, numBlocks, blockStart, arpPc, currentNote,
          processedBy, loadedBy, heapOps, env, envOp,
          filter, filterOp, filteredWith, synths, synthsBefore,
          loadRet, appOp, outputProcessor, voiceSamples, monoSample,
          outSample, controlChangeCallback, polyAftertouchCallback,
          oscillator, oscOp, oscFrequency, oscRead, kbd, kbdOp,
          kbdReadings, midiOut, keyLast, numScans, app, saved, copySeen>>

decoderVars == <<processorState, currentCommand, messageByte1>>
streamVars == <<numBytes, numNoteOn, numAssigned, dataRun, msgRun, prevData,
                interrupted, lastStatus>>
callVars == <<numCalls, assignedBy, notesRequested, voicesReturned, stealRun>>

appVars == <<entryPoint, audioPc, frame, numBlocks, blockStart, arpPc,
             currentNote, processedBy, loadedBy, heapOps>>

\* The parts of a voice and of the output stage used on their own.
envVars == <<env, envOp>>
filterVars == <<filter, filterOp, filteredWith>>
poolVars == <<synths, synthsBefore, loadRet, appOp>>
outputVars == <<outputProcessor, voiceSamples, monoSample, outSample>>
hookVars == <<controlChangeCallback, polyAftertouchCallback>>
oscVars == <<oscillator, oscOp, oscFrequency, oscRead>>
kbdVars == <<kbd, kbdOp, kbdReadings, midiOut, keyLast, numScans>>
clipVars == <<app, saved, copySeen>>
unitVars == <<oscVars, kbdVars, clipVars>>
partVars == <<envVars, filterVars, poolVars, outputVars, hookVars, unitVars>>

maxVoices == Cardinality(DOMAIN voices)

\* The decoder and allocator state as the record process() works on.
World ==
    [processorState |-> processorState, currentCommand |-> currentCommand,
     messageByte1 |-> messageByte1, voices |-> voices,
     lastAllocatedIndex |-> lastAllocatedIndex,
     listenChannel |-> listenChannel,
     controlChangeCallback |-> controlChangeCallback,
     polyAftertouchCallback |-> polyAftertouchCallback]

\* The decoder, the allocator and its pool after their constructors, for a
\* listen channel and a pool size out of the given sets.
Constructed(channels, sizes) ==
    /\ listenChannel \in channels
    /\ processorState = "Initial"
    /\ currentCommand = 0
    /\ messageByte1 = 0
    /\ \E n \in sizes : voices = AllocatorInit(n)
    /\ lastAllocatedIndex = 0
    /\ last = [NoEvent EXCEPT !.op = "init"]
    /\ numBytes = 0
    /\ numNoteOn = 0
    /\ numAssigned = 0
    /\ numCalls = 0
    /\ assignedBy = [i \in DOMAIN voices |-> nullptr]
    /\ notesRequested = {}
    /\ voicesReturned = {}
    /\ stealRun = <<>>
    /\ dataRun = 0
    /\ msgRun = 0
    /\ prevData = -1
    /\ interrupted = FALSE
    /\ lastStatus = -1

\* No audio loop has been entered: the objects are used on their own.
NoLoop(entry) ==
    /\ entryPoint = entry
    /\ audioPc = "midi"
    /\ frame = 0
    /\ numBlocks = 0
    /\ blockStart = voices
    /\ arpPc = 0
    /\ currentNote = 0
    /\ processedBy = "none"
    /\ loadedBy = "none"
    /\ heapOps = 0

\* The sample rates the parts are constructed with: a low one for the
\* envelope, which keeps its phases a few samples long, and the default.
EnvSampleRates == {100}
FilterSampleRates == {44100}

\* SimpleVoiceAllocator's pool of n voices as the factory of
\* SynthApplication builds them.
VoicePool(n, sampleRate) == [i \in 0..(n - 1) |-> WavetableSynth(sampleRate)]

\* SynthApplication::SynthApplication: outputProcessor_ and the mono buffer
\* before the first renderAudio().
\* SynthApplication::SynthApplication hands handleCC to the StreamProcessor
\* as its control-change hook.
HooksConstructed ==
    /\ controlChangeCallback = TRUE
    /\ polyAftertouchCallback = TRUE

\* The sample rate of main_linux.cpp and main_esp32.cpp.
OscSampleRates == {44100}

\* WavetableOscillator::WavetableOscillator(sampleRate)
OscConstructed ==
    /\ \E sampleRate \in OscSampleRates :
            oscillator = WavetableOscillator(sampleRate)
    /\ oscOp = "WavetableOscillator"
    /\ oscFrequency = 0
    /\ oscRead = <<0, 0>>

\* MidiKeyboardController's constructor with its default base note and
\* velocity.
KbdConstructed ==
    /\ kbd = MidiKeyboardController(60, 64)
    /\ kbdOp = "MidiKeyboardController"
    /\ kbdReadings = [i \in Keys |-> 0]
    /\ midiOut = <<>>
    /\ keyLast = [i \in Keys |-> "none"]
    /\ numScans = 0

\* SynthApplication's members for the clipboard, for an application with
\* or without a program storage and with or without a clipboard.
ClipConstructed(storages, clipboards) ==
    /\ \E storage \in storages, clipboard \in clipboards :
            app = SynthApplication(storage, clipboard)
    /\ saved = {}
    /\ copySeen = FALSE

\* The units used on their own, after their constructors.
UnitsConstructed ==
    /\ OscConstructed
    /\ KbdConstructed
    /\ ClipConstructed({FALSE}, {FALSE})

OutputConstructed ==
    /\ \E sampleRate \in EnvSampleRates :
            outputProcessor = OutputProcessor(One \div 2, sampleRate)
    /\ voiceSamples = [i \in 0..(MaxVoices - 1) |-> 0]
    /\ monoSample = 0
    /\ outSample = 0

PoolConstructed ==
    /\ \E sampleRate \in EnvSampleRates :
            synths = VoicePool(MaxVoices, sampleRate)
    /\ synthsBefore = synths
    /\ loadRet = "none"
    /\ appOp = "SynthApplication"

\* The parts used on their own, after their constructors.
PartsConstructed ==
    /\ PoolConstructed
    /\ OutputConstructed
    /\ HooksConstructed
    /\ UnitsConstructed
    /\ \E sampleRate \in EnvSampleRates : env = AdsrEnvelope(sampleRate)
    /\ envOp = "AdsrEnvelope"
    /\ \E sampleRate \in FilterSampleRates : filter = BiquadFilter(sampleRate)
    /\ filterOp = "BiquadFilter"
    /\ filteredWith = <<>>

Init ==
    /\ Constructed(ListenChannels, 1..MaxVoices)
    /\ NoLoop("none")
    /\ PartsConstructed

-----------------------------------------------------------------------------
(* The program: bytes are fed to the decoder between rendered frames *)

\* The kind of a byte of the stream, for the bookkeeping of the stream: a
\* real-time byte (0xF8..0xFF), any status byte (bit 7 set).
RealTimeByte(b) == b >= SYSTEM_REALTIME_MIN
StatusByte(b) == b >= STATUS_BYTE_MASK

\* What a process() call that ran while another thread was inside
\* renderAudio can leave in the pool.  The two threads are not synchronised,
\* so the call's writes to a voice and nextSample()'s writes to it can
\* interleave: a voice the call changed ends as the call left it, or with
\* the envelope phase or the envelope level it had before.
RaceOutcomes(old, new) ==
    {vs \in [DOMAIN new ->
                {new[i] : i \in DOMAIN new} \cup
                {[new[i] EXCEPT !.synth.ampEnvelope_.level_ =
                                    old[i].synth.ampEnvelope_.level_] :
                    i \in DOMAIN new} \cup
                {[new[i] EXCEPT !.synth.ampEnvelope_.phase_ =
                                    old[i].synth.ampEnvelope_.phase_] :
                    i \in DOMAIN new}] :
        \A i \in DOMAIN new :
            \/ vs[i] = new[i]
            \/ /\ new[i] # old[i]
               /\ vs[i] \in
                    {[new[i] EXCEPT !.synth.ampEnvelope_.level_ =
                                        old[i].synth.ampEnvelope_.level_],
                     [new[i] EXCEPT !.synth.ampEnvelope_.phase_ =
                                        old[i].synth.ampEnvelope_.phase_]}}

\* process(data) and the bookkeeping of the stream; racing tells whether
\* the call runs unsynchronised beside renderAudio.  What the hooks do is
\* left to the caller.
ProcessCall(data, racing) ==
    /\ numBytes < MaxBytes
    /\  LET r == process(World, listenChannel, data)
        IN  /\ processorState' = r.w.processorState
            /\ currentCommand' = r.w.currentCommand
            /\ messageByte1' = r.w.messageByte1
            /\ voices' \in IF racing THEN RaceOutcomes(voices, r.w.voices)
                           ELSE {r.w.voices}
            /\ lastAllocatedIndex' = r.w.lastAllocatedIndex
            /\ last' = [r.ev EXCEPT !.byte = data]
            /\ numBytes' = numBytes + 1
            /\ numNoteOn' = IF r.ev.msg = NOTE_ON_COMMAND /\ r.ev.data > 0
                            THEN numNoteOn + 1 ELSE numNoteOn
            /\ numAssigned' = IF r.ev.assigned
                              THEN numAssigned + 1 ELSE numAssigned
            /\ dataRun' = IF RealTimeByte(data) THEN dataRun
                          ELSE IF StatusByte(data) THEN 0
                          ELSE dataRun + 1
            /\ msgRun' = IF RealTimeByte(data) THEN msgRun
                         ELSE IF StatusByte(data) THEN 0
                         ELSE IF r.ev.msg # 0 THEN msgRun + 1
                         ELSE msgRun
            /\ prevData' = IF RealTimeByte(data) THEN prevData
                           ELSE IF StatusByte(data) THEN -1
                           ELSE data
            /\ interrupted' =
                    IF RealTimeByte(data) \/ ~StatusByte(data)
                    THEN interrupted
                    ELSE /\ lastStatus # -1
                         /\ lastStatus % (CHANNEL_MASK + 1) = listenChannel
                         /\ lastStatus < PITCH_BEND_COMMAND + CHANNEL_MASK + 1
                         /\ lastStatus - listenChannel \notin
                                {PROGRAM_CHANGE_COMMAND,
                                 PROGRAM_CHANGE_COMMAND + 16}
                         /\ dataRun % 2 = 1
            /\ lastStatus' =
                    IF StatusByte(data) /\ ~RealTimeByte(data)
                    THEN data ELSE lastStatus
    /\ UNCHANGED <<listenChannel, callVars, hookVars, unitVars>>

\* process(data) of a decoder whose hooks leave the parts alone
ProcessData(data, racing) ==
    /\ ProcessCall(data, racing)
    /\ UNCHANGED <<envVars, filterVars, poolVars, outputVars>>

\* SynthApplication::processMidiByte(data)
ProcessByte ==
    /\ \E data \in StatusBytes(listenChannel) \cup DataBytes :
        ProcessData(data, FALSE)
    /\ UNCHANGED appVars

\* One frame of SynthApplication::renderAudio: nextSample() on every voice.
RenderFrame ==
    /\ voices' = forEachVoiceNextSample(voices)
    /\ last' = [NoEvent EXCEPT !.op = "renderAudio"]
    /\ UNCHANGED partVars
    /\ UNCHANGED <<listenChannel, decoderVars, lastAllocatedIndex,
                   streamVars, callVars, appVars>>

Next == ProcessByte \/ RenderFrame

Spec == Init /\ [][Next]_vars

-----------------------------------------------------------------------------
(* The decoder on every listen channel, driving a pool of one voice *)

\* StreamProcessor(voiceAllocator, listenChannel, ...) for each channel the
\* constructor accepts.
DecoderInit ==
    /\ Constructed(0..CHANNEL_MASK, {1})
    /\ NoLoop("none")
    /\ PartsConstructed

\* Status bytes of the streams explored on every listen channel ch: NoteOn
\* and ProgramChange on the listen channel, SysEx start/end, the system byte
\* whose low nibble is the listen channel (for the channels that have one)
\* and a real-time clock byte.
SystemStreamBytes(ch) ==
    {NOTE_ON_COMMAND + ch, PROGRAM_CHANGE_COMMAND + ch,
     240, 240 + (ch % 8), 247, SYSTEM_REALTIME_MIN}

\* decoder.process(data)
DecoderProcessByte ==
    /\ \E data \in SystemStreamBytes(listenChannel) \cup DataBytes :
        ProcessData(data, FALSE)
    /\ UNCHANGED appVars

DecoderNext == DecoderProcessByte

DecoderSpec == DecoderInit /\ [][DecoderNext]_vars

-----------------------------------------------------------------------------
(* The entry points: the audio loop of app_main and the MIDI producers *)

\* The app_main functions: the Linux pull loop, the ESP32 loop that scans the
\* capacitive keyboard, the ESP32 loop beside the arpeggio task.
EntryPoints == {"linux", "keyboard", "arpeggio"}

\* Whether app_main hands a ProgramStorage to SynthApplication.
hasProgramStorage(entry) == entry \in {"linux", "keyboard"}

\* Bytes the MIDI producer of an entry point hands to processMidiByte: the
\* ALSA device any byte (of which NoteOn, NoteOff and ProgramChange messages
\* are explored), the keyboard controller NoteOn, NoteOff and PolyAftertouch
\* messages on channel 0.
MidiSource(entry) ==
    IF entry = "linux"
    THEN {NOTE_ON_COMMAND, NOTE_OFF_COMMAND, PROGRAM_CHANGE_COMMAND}
            \cup DataBytes
    ELSE {NOTE_ON_COMMAND, NOTE_OFF_COMMAND, POLY_AFTERTOUCH_COMMAND}
            \cup DataBytes

\* ArpeggioTask::run: the notes of the pattern.
notes == <<60, 64, 67, 72>>

\* ArpeggioTask::run: the byte sent at position pc of a note: NoteOn status,
\* note, velocity 100, then NoteOff status, note, 0.
ArpeggioByte(pc, noteIndex) ==
    CASE pc = 0 -> NOTE_ON_COMMAND
      [] pc = 1 -> notes[noteIndex + 1]
      [] pc = 2 -> 100
      [] pc = 3 -> NOTE_OFF_COMMAND
      [] pc = 4 -> notes[noteIndex + 1]
      [] OTHER -> 0

AppInit ==
    /\ Constructed(ListenChannels, 1..MaxVoices)
    /\ \E entry \in EntryPoints : NoLoop(entry)
    /\ PartsConstructed

\* SynthApplication::handleProgramChange, for the event of a process() call
\* made by a thread: the thread that ran loadProgram last.
LoadedAfter(ev, thread) ==
    IF ev.hook = "programChangeCallback" /\ hasProgramStorage(entryPoint)
    THEN thread ELSE loadedBy

\* Heap operations of loadProgram: FilesystemProgramStorage opens a file
\* stream and parses JSON, EmbeddedProgramStorage fills a struct.
HeapAfter(ev) ==
    IF ev.hook = "programChangeCallback" /\ entryPoint = "linux"
    THEN heapOps + 1 ELSE heapOps

\* The audio loop hands one byte to processMidiByte: inside pollAndRead's
\* callback (Linux), inside processScan (keyboard).
AudioProcessByte ==
    /\ entryPoint \in {"linux", "keyboard"}
    /\ audioPc = "midi"
    /\ \E data \in MidiSource(entryPoint) : ProcessData(data, FALSE)
    /\ processedBy' = "audio"
    /\ loadedBy' = LoadedAfter(last', "audio")
    /\ heapOps' = HeapAfter(last')
    /\ UNCHANGED <<entryPoint, audioPc, frame, numBlocks, blockStart, arpPc,
                   currentNote>>

\* renderAudio up to its mixing loop: the vector of voice pointers is built
\* with push_back, which allocates.
RenderBegin ==
    /\ entryPoint \in EntryPoints
    /\ audioPc = "midi"
    /\ numBlocks < MaxBlocks
    /\ audioPc' = "render"
    /\ frame' = 0
    /\ numBlocks' = numBlocks + 1
    /\ blockStart' = voices
    /\ heapOps' = heapOps + 1
    /\ last' = [NoEvent EXCEPT !.op = "renderAudio"]
    /\ UNCHANGED partVars
    /\ UNCHANGED <<listenChannel, decoderVars, voices, lastAllocatedIndex,
                   streamVars, callVars, entryPoint, arpPc, currentNote,
                   processedBy, loadedBy>>

\* One iteration of the mixing loop of renderAudio: nextSample() on every
\* voice.
RenderSample ==
    /\ audioPc = "render"
    /\ frame < BlockFrames
    /\ voices' = forEachVoiceNextSample(voices)
    /\ frame' = frame + 1
    /\ last' = [NoEvent EXCEPT !.op = "renderAudio"]
    /\ UNCHANGED partVars
    /\ UNCHANGED <<listenChannel, decoderVars, lastAllocatedIndex,
                   streamVars, callVars, entryPoint, audioPc, numBlocks,
                   blockStart, arpPc, currentNote, processedBy, loadedBy,
                   heapOps>>

\* renderAudio after its mixing loop: output processing, copy to the buffer,
\* return; the vector of voice pointers is freed.
RenderEnd ==
    /\ audioPc = "render"
    /\ frame = BlockFrames
    /\ audioPc' = "midi"
    /\ heapOps' = heapOps + 1
    /\ last' = [NoEvent EXCEPT !.op = "renderAudio"]
    /\ UNCHANGED partVars
    /\ UNCHANGED <<listenChannel, decoderVars, voices, lastAllocatedIndex,
                   streamVars, callVars, entryPoint, frame, numBlocks,
                   blockStart, arpPc, currentNote, processedBy, loadedBy>>

\* ArpeggioTask::sendMidiByte on the arpeggio task: the callback calls
\* gSynth->processMidiByte there, wherever the audio loop is.
ArpeggioSendByte ==
    /\ entryPoint = "arpeggio"
    /\ ProcessData(ArpeggioByte(arpPc, currentNote), audioPc = "render")
    /\ processedBy' = "arpeggio"
    /\ loadedBy' = LoadedAfter(last', "arpeggio")
    /\ heapOps' = HeapAfter(last')
    /\ arpPc' = (arpPc + 1) % 6
    /\ currentNote' = IF arpPc = 5 THEN (currentNote + 1) % Len(notes)
                      ELSE currentNote
    /\ UNCHANGED <<entryPoint, audioPc, frame, numBlocks, blockStart>>

AppNext ==
    \/ AudioProcessByte
    \/ RenderBegin
    \/ RenderSample
    \/ RenderEnd
    \/ ArpeggioSendByte

AppSpec == AppInit /\ [][AppNext]_vars

-----------------------------------------------------------------------------
(* The allocator on its own: direct calls, as its unit tests make them *)

\* The last maxVoices elements of a sequence.
LastN(q, n) == IF Len(q) <= n THEN q ELSE SubSeq(q, Len(q) - n + 1, Len(q))

\* stealRun after a call that left the pool as vs: emptied whenever some
\* voice is not active, extended by the slot a stealing allocate() took.
StealRunAfter(vs, stole, slot) ==
    IF \E i \in DOMAIN vs : ~SynthIsActive(vs[i].synth) THEN <<>>
    ELSE IF stole THEN LastN(Append(stealRun, slot), Cardinality(DOMAIN vs))
    ELSE stealRun

\* allocator.allocate(midiNote)
Allocate ==
    /\ numCalls < MaxCalls
    /\ \E midiNote \in Notes :
        LET a == allocate(voices, lastAllocatedIndex, midiNote)
        IN  /\ voices' = a.voices
            /\ lastAllocatedIndex' = a.lastAllocatedIndex
            /\ last' = [NoEvent EXCEPT !.op = "allocate", !.note = midiNote,
                                       !.ret = a.ret, !.assigned = a.assigned,
                                       !.stole = a.stole,
                                       !.released = a.released]
            /\ assignedBy' = IF a.assigned
                             THEN [assignedBy EXCEPT ![a.ret] = midiNote]
                             ELSE assignedBy
            /\ notesRequested' = notesRequested \cup {midiNote}
            /\ voicesReturned' = voicesReturned \cup {a.ret}
            /\ stealRun' = StealRunAfter(a.voices, a.stole, a.ret)
    /\ numCalls' = numCalls + 1
    /\ UNCHANGED partVars
    /\ UNCHANGED <<appVars, listenChannel, decoderVars, streamVars>>

\* allocator.findAllocated(midiNote)
FindAllocated ==
    /\ numCalls < MaxCalls
    /\ \E midiNote \in Notes :
        last' = [NoEvent EXCEPT !.op = "findAllocated", !.note = midiNote,
                                !.ret = findAllocated(voices, midiNote)]
    /\ numCalls' = numCalls + 1
    /\ UNCHANGED partVars
    /\ UNCHANGED <<appVars, listenChannel, decoderVars, streamVars, voices,
                   lastAllocatedIndex, assignedBy, notesRequested,
                   voicesReturned, stealRun>>

\* allocator.forEachVoice(setPitchBend(bendAmount))
ForEachVoice ==
    /\ numCalls < MaxCalls
    /\ \E bendAmount \in BendInputs :
        voices' = forEachVoiceSetPitchBend(voices, bendAmount)
    /\ last' = [NoEvent EXCEPT !.op = "forEachVoice"]
    /\ numCalls' = numCalls + 1
    /\ UNCHANGED partVars
    /\ UNCHANGED <<appVars, listenChannel, decoderVars, streamVars,
                   lastAllocatedIndex,
                   assignedBy, notesRequested, voicesReturned, stealRun>>

\* trigger() on a voice the caller got from allocate()
VoiceTrigger ==
    /\ numCalls < MaxCalls
    /\ \E i \in voicesReturned :
        /\ voices' = [voices EXCEPT ![i].synth = SynthTrigger(@)]
        /\ last' = [NoEvent EXCEPT !.op = "trigger", !.ret = i,
                                   !.triggered = <<i>>]
    /\ stealRun' = StealRunAfter(voices', FALSE, nullptr)
    /\ numCalls' = numCalls + 1
    /\ UNCHANGED partVars
    /\ UNCHANGED <<appVars, listenChannel, decoderVars, streamVars,
                   lastAllocatedIndex,
                   assignedBy, notesRequested, voicesReturned>>

\* release() on a voice the caller got from allocate()
VoiceRelease ==
    /\ numCalls < MaxCalls
    /\ \E i \in voicesReturned :
        /\ voices' = [voices EXCEPT ![i].synth = SynthRelease(@)]
        /\ last' = [NoEvent EXCEPT !.op = "release", !.ret = i,
                                   !.released = <<i>>]
    /\ stealRun' = StealRunAfter(voices', FALSE, nullptr)
    /\ numCalls' = numCalls + 1
    /\ UNCHANGED partVars
    /\ UNCHANGED <<appVars, listenChannel, decoderVars, streamVars,
                   lastAllocatedIndex,
                   assignedBy, notesRequested, voicesReturned>>

\* nextSample() on every voice of the pool
VoiceNextSample ==
    /\ numCalls < MaxCalls
    /\ voices' = forEachVoiceNextSample(voices)
    /\ last' = [NoEvent EXCEPT !.op = "nextSample"]
    /\ stealRun' = StealRunAfter(voices', FALSE, nullptr)
    /\ numCalls' = numCalls + 1
    /\ UNCHANGED partVars
    /\ UNCHANGED <<appVars, listenChannel, decoderVars, streamVars,
                   lastAllocatedIndex,
                   assignedBy, notesRequested, voicesReturned>>

AllocNext ==
    \/ Allocate
    \/ FindAllocated
    \/ ForEachVoice
    \/ VoiceTrigger
    \/ VoiceRelease
    \/ VoiceNextSample

AllocSpec == Init /\ [][AllocNext]_vars

-----------------------------------------------------------------------------
(* The allocator on its own for every pool size from 0 on *)

SizeInit ==
    /\ Constructed(ListenChannels, 0..MaxVoices)
    /\ NoLoop("none")
    /\ PartsConstructed

\* allocator.allocate(midiNote) on an allocator built with maxVoices = 0;
\* no call follows one that trapped.
AllocateEmpty ==
    /\ numCalls < MaxCalls
    /\ DOMAIN voices = {}
    /\ last.op # "trap"
    /\ \E midiNote \in Notes :
        \E a \in allocateEmpty(voices, lastAllocatedIndex, midiNote) :
            /\ voices' = a.voices
            /\ lastAllocatedIndex' = a.lastAllocatedIndex
            /\ last' = [NoEvent EXCEPT
                            !.op = IF a.trapped THEN "trap" ELSE "allocate",
                            !.note = midiNote, !.ret = a.ret]
            /\ notesRequested' = notesRequested \cup {midiNote}
    /\ numCalls' = numCalls + 1
    /\ UNCHANGED <<assignedBy, voicesReturned, stealRun>>
    /\ UNCHANGED partVars
    /\ UNCHANGED <<appVars, listenChannel, decoderVars, streamVars>>

SizeNext ==
    \/ DOMAIN voices # {} /\ AllocNext
    \/ AllocateEmpty

SizeSpec == SizeInit /\ [][SizeNext]_vars

-----------------------------------------------------------------------------
(* EnvSpec: one AdsrEnvelope and the calls of its public interface *)

\* Times (in milliseconds) and sustain levels passed to the setters: zero
\* and the constructor's value; the levels include one below 0.0 and one
\* above 1.0.
AttackInputs == {0, 10}
DecayInputs == {0, 50}
ReleaseInputs == {0, 100}
SustainInputs == {-(One \div 2), 0, (7 * One) \div 10, One + (One \div 2)}

\* Samples are generated while the level stays within this range: with a
\* negative rate the level has no bound of its own.
LevelCap == One + (One \div 2)

EnvInit ==
    /\ Constructed(ListenChannels, {1})
    /\ NoLoop("none")
    /\ PartsConstructed

\* What the calls on a part leave alone: the decoder, the allocator and
\* its pool, the audio loop.
RestUnchanged ==
    UNCHANGED <<listenChannel, decoderVars, voices, lastAllocatedIndex, last,
                streamVars, callVars, appVars, hookVars, unitVars>>

EnvUnchanged ==
    RestUnchanged /\ UNCHANGED <<filterVars, poolVars, outputVars>>

EnvSetParameters ==
    /\ \E attack \in AttackInputs, decay \in DecayInputs,
          sustain \in SustainInputs, rel \in ReleaseInputs :
            env' = setParameters(env, attack, decay, sustain, rel)
    /\ envOp' = "setParameters"
    /\ EnvUnchanged

EnvSetAttackTime ==
    /\ \E time \in AttackInputs : env' = setAttackTime(env, time)
    /\ envOp' = "setAttackTime"
    /\ EnvUnchanged

EnvSetDecayTime ==
    /\ \E time \in DecayInputs : env' = setDecayTime(env, time)
    /\ envOp' = "setDecayTime"
    /\ EnvUnchanged

EnvSetSustainLevel ==
    /\ \E level \in SustainInputs : env' = setSustainLevel(env, level)
    /\ envOp' = "setSustainLevel"
    /\ EnvUnchanged

EnvSetReleaseTime ==
    /\ \E time \in ReleaseInputs : env' = setReleaseTime(env, time)
    /\ envOp' = "setReleaseTime"
    /\ EnvUnchanged

EnvTrigger ==
    /\ env' = trigger(env)
    /\ envOp' = "trigger"
    /\ EnvUnchanged

EnvRelease ==
    /\ env' = release(env)
    /\ envOp' = "release"
    /\ EnvUnchanged

EnvNextSample ==
    /\ nextSample(env).level_ \in -LevelCap..LevelCap
    /\ env' = nextSample(env)
    /\ envOp' = "nextSample"
    /\ EnvUnchanged

EnvNext ==
    \/ EnvSetParameters
    \/ EnvSetAttackTime
    \/ EnvSetDecayTime
    \/ EnvSetSustainLevel
    \/ EnvSetReleaseTime
    \/ EnvTrigger
    \/ EnvRelease
    \/ EnvNextSample

EnvSpec == EnvInit /\ [][EnvNext]_vars

-----------------------------------------------------------------------------
(* EnvLiveSpec: an envelope constructed and given allowed parameters, then
   triggered, released and sampled.  The audio loop asks every voice for a
   sample in every frame, for as long as it runs: nextSample() is taken again
   and again, which is the weak fairness of EnvNextSample. *)

\* Allowed sustain levels: 0.0, the constructor's value, 1.0.
AllowedSustain == {0, (7 * One) \div 10, One}

EnvLiveInit ==
    /\ Constructed(ListenChannels, {1})
    /\ NoLoop("none")
    /\ \E sampleRate \in EnvSampleRates,
          attack \in AttackInputs, decay \in DecayInputs,
          sustain \in AllowedSustain, rel \in ReleaseInputs :
            env = setParameters(AdsrEnvelope(sampleRate),
                                attack, decay, sustain, rel)
    /\ envOp = "setParameters"
    /\ \E sampleRate \in FilterSampleRates : filter = BiquadFilter(sampleRate)
    /\ PoolConstructed
    /\ OutputConstructed
    /\ HooksConstructed
    /\ UnitsConstructed
    /\ filterOp = "BiquadFilter"
    /\ filteredWith = <<>>

EnvLiveNext ==
    \/ EnvTrigger
    \/ EnvRelease
    \/ EnvNextSample

EnvLiveSpec ==
    EnvLiveInit /\ [][EnvLiveNext]_vars /\ WF_vars(EnvNextSample)

-----------------------------------------------------------------------------
(* FilterSpec: one BiquadFilter and the calls of its public interface *)

\* Cutoffs and Q factors passed to the setters: below, within and above
\* the limits.
CutoffInputs == {Hz(10), Hz(1000), Hz(5000), Hz(30000)}
QInputs == {50, 707, 5000, 30000}

FilterInit ==
    /\ Constructed(ListenChannels, {1})
    /\ NoLoop("none")
    /\ PartsConstructed

FilterUnchanged ==
    RestUnchanged /\ UNCHANGED <<envVars, poolVars, outputVars>>

FilterSetMode ==
    /\ \E mode \in Modes : filter' = setMode(filter, mode)
    /\ filterOp' = "setMode"
    /\ UNCHANGED filteredWith
    /\ FilterUnchanged

FilterSetCutoff ==
    /\ \E cutoffHz \in CutoffInputs : filter' = setCutoff(filter, cutoffHz)
    /\ filterOp' = "setCutoff"
    /\ UNCHANGED filteredWith
    /\ FilterUnchanged

FilterSetQ ==
    /\ \E q \in QInputs : filter' = setQ(filter, q)
    /\ filterOp' = "setQ"
    /\ UNCHANGED filteredWith
    /\ FilterUnchanged

FilterProcessSample ==
    /\ \E input \in {0, One} : filter' = processSample(filter, input)
    /\ filterOp' = "processSample"
    /\ filteredWith' = filter'.coeffs
    /\ FilterUnchanged

FilterReset ==
    /\ filter' = filterReset(filter)
    /\ filterOp' = "reset"
    /\ UNCHANGED filteredWith
    /\ FilterUnchanged

FilterNext ==
    \/ FilterSetMode
    \/ FilterSetCutoff
    \/ FilterSetQ
    \/ FilterProcessSample
    \/ FilterReset

FilterSpec == FilterInit /\ [][FilterNext]_vars

-----------------------------------------------------------------------------
(* ProgramSpec: SynthApplication with a FilesystemProgramStorage; program
   changes and control changes reach the pool through its hooks *)

\* The programs a file can hold: one with every value within its range
\* (the embedded default program, rounded) and one with every value outside.
ProgramInputs ==
    {[waveformShape |-> One, baseCutoff |-> Hz(222), filterQ |-> 3937,
      filterMode |-> 1, filterEnvAmount |-> One,
      filterEnvAttack |-> 50, filterEnvDecay |-> 250,
      filterEnvSustain |-> One \div 2, filterEnvRelease |-> 250],
     [waveformShape |-> 2 * One, baseCutoff |-> Hz(5), filterQ |-> 30000,
      filterMode |-> 4, filterEnvAmount |-> -One,
      filterEnvAttack |-> 5, filterEnvDecay |-> 200,
      filterEnvSustain |-> One + (One \div 2), filterEnvRelease |-> 100]}

\* What opening and reading the file of a program can give.
ProgramFiles ==
    {[opens |-> FALSE, parses |-> FALSE, data |-> ProgramData],
     [opens |-> TRUE, parses |-> FALSE, data |-> ProgramData]}
        \cup {[opens |-> TRUE, parses |-> TRUE, data |-> program] :
                program \in ProgramInputs}

ControllerInputs == {1, 20, 21, 25, 7}
ValueInputs == {0, 127}

\* SynthApplication::SynthApplication: the pool, then loadProgram() of
\* program 1.
ProgramInit ==
    /\ Constructed(ListenChannels, {1})
    /\ NoLoop("none")
    /\ \E sampleRate \in EnvSampleRates : env = AdsrEnvelope(sampleRate)
    /\ envOp = "AdsrEnvelope"
    /\ \E sampleRate \in FilterSampleRates : filter = BiquadFilter(sampleRate)
    /\ filterOp = "BiquadFilter"
    /\ filteredWith = <<>>
    /\ \E sampleRate \in EnvSampleRates, file \in ProgramFiles :
        /\ synthsBefore = VoicePool(MaxVoices, sampleRate)
        /\ synths = loadProgram(file, synthsBefore).synths
        /\ loadRet = loadProgram(file, synthsBefore).ret
    /\ appOp = "loadProgram"
    /\ OutputConstructed
    /\ HooksConstructed
    /\ UnitsConstructed

PoolUnchanged ==
    RestUnchanged /\ UNCHANGED <<envVars, filterVars, outputVars>>

\* SynthApplication::handleProgramChange(channel, program, allocator)
HandleProgramChange ==
    /\ \E file \in ProgramFiles :
        /\ synths' = loadProgram(file, synths).synths
        /\ loadRet' = loadProgram(file, synths).ret
    /\ synthsBefore' = synths
    /\ appOp' = "loadProgram"
    /\ PoolUnchanged

\* SynthApplication::handleCC(channel, cc, value, allocator)
HandleCC ==
    /\ \E cc \in ControllerInputs, value \in ValueInputs :
            synths' = handleCC(synths, cc, value)
    /\ appOp' = "handleCC"
    /\ UNCHANGED <<synthsBefore, loadRet>>
    /\ PoolUnchanged

ProgramNext == HandleProgramChange \/ HandleCC

ProgramSpec == ProgramInit /\ [][ProgramNext]_vars

\* The program of the pool taken to a new application: captureFromVoices,
\* to_json, from_json, and applyProgramToVoices on the pool that a newly
\* constructed allocator builds.  synthsBefore keeps the pool it came from.
RestoreProgram ==
    /\ appOp # "restore"
    /\ LET program == captureFromVoices(ProgramData, synths)
           restored == from_json(to_json(program))
           allocator == VoicePool(MaxVoices, synths[0].sampleRate_)
       IN  synths' = applyProgramToVoices(restored, allocator)
    /\ synthsBefore' = synths
    /\ appOp' = "restore"
    /\ UNCHANGED loadRet
    /\ PoolUnchanged

RestoreNext == HandleProgramChange \/ HandleCC \/ RestoreProgram

RestoreSpec == ProgramInit /\ [][RestoreNext]_vars

-----------------------------------------------------------------------------
(* SynthApplication::renderAudio on the pool and the output processor, one
   frame a step, between notes that start and end on the first and on the
   last voice of the pool. *)

\* A sample rate that keeps every envelope phase a few frames long.
RenderSampleRates == {20}

\* The voices that notes are played on.
RenderVoices == {0, MaxVoices - 1}

\* The drive values written: below, inside and above [0, 1].
DriveInputs == {2 * One}

RenderInit ==
    /\ Constructed(ListenChannels, {1})
    /\ NoLoop("none")
    /\ \E sampleRate \in EnvSampleRates : env = AdsrEnvelope(sampleRate)
    /\ envOp = "AdsrEnvelope"
    /\ \E sampleRate \in FilterSampleRates : filter = BiquadFilter(sampleRate)
    /\ filterOp = "BiquadFilter"
    /\ filteredWith = <<>>
    /\ \E sampleRate \in RenderSampleRates :
        /\ synths = VoicePool(MaxVoices, sampleRate)
        /\ outputProcessor = OutputProcessor(One \div 2, sampleRate)
    /\ synthsBefore = synths
    /\ loadRet = "none"
    /\ appOp = "SynthApplication"
    /\ voiceSamples = [i \in DOMAIN synths |-> 0]
    /\ monoSample = 0
    /\ outSample = 0
    /\ HooksConstructed
    /\ UnitsConstructed

RenderUnchanged == RestUnchanged /\ UNCHANGED <<envVars, filterVars>>

\* WavetableSynth::trigger on a voice of the pool that is not sounding
PoolTrigger ==
    /\ \E i \in RenderVoices :
        /\ ~synthIsActive(synths[i])
        /\ synths' = [synths EXCEPT ![i] = synthTrigger(@, 440, One)]
    /\ appOp' = "trigger"
    /\ synthsBefore' = synths
    /\ UNCHANGED <<loadRet, outputVars>>
    /\ RenderUnchanged

\* WavetableSynth::release on a voice of the pool
PoolRelease ==
    /\ \E i \in RenderVoices :
            synths' = [synths EXCEPT ![i] = synthRelease(@)]
    /\ appOp' = "release"
    /\ synthsBefore' = synths
    /\ UNCHANGED <<loadRet, outputVars>>
    /\ RenderUnchanged

\* SynthApplication::renderAudio, one frame
RenderAudio ==
    /\ LET r == renderAudio(synths, outputProcessor)
       IN  /\ synths' = r.synths
           /\ voiceSamples' = r.samples
           /\ monoSample' = r.mono
           /\ outputProcessor' = r.p
           /\ outSample' = r.out
    /\ synthsBefore' = synths
    /\ appOp' = "renderAudio"
    /\ UNCHANGED loadRet
    /\ RenderUnchanged

\* SynthApplication::handleCC, controller 102 with a value above 63:
\* outputProcessor_.nextMode()
OutputNextMode ==
    /\ outputProcessor' = nextMode(outputProcessor)
    /\ appOp' = "nextMode"
    /\ synthsBefore' = synths
    /\ UNCHANGED <<synths, loadRet, voiceSamples, monoSample, outSample>>
    /\ RenderUnchanged

\* OutputProcessor::setDrive on the output processor
OutputSetDrive ==
    /\ \E drive \in DriveInputs :
            outputProcessor' = setDrive(outputProcessor, drive)
    /\ appOp' = "setDrive"
    /\ synthsBefore' = synths
    /\ UNCHANGED <<synths, loadRet, voiceSamples, monoSample, outSample>>
    /\ RenderUnchanged

RenderNext ==
    \/ PoolTrigger
    \/ PoolRelease
    \/ RenderAudio
    \/ OutputNextMode
    \/ OutputSetDrive

RenderSpec == RenderInit /\ [][RenderNext]_vars

-----------------------------------------------------------------------------
(* ControlSpec: a StreamProcessor constructed with or without a
   control-change hook, fed ControlChange and NoteOn messages. *)

\* Data bytes of the streams: controller numbers on both sides of 120, also
\* used as notes, values and velocities.
ControlDataBytes == {0, 7, 119, 120, 127}

\* Status bytes of the streams.
ControlStatusBytes(ch) == {CONTROL_CHANGE_COMMAND + ch, NOTE_ON_COMMAND + ch}

\* StreamProcessor::StreamProcessor with ccCallback given or left nullptr
ControlInit ==
    /\ Constructed(ListenChannels, {MaxVoices})
    /\ NoLoop("none")
    /\ \E sampleRate \in EnvSampleRates : env = AdsrEnvelope(sampleRate)
    /\ envOp = "AdsrEnvelope"
    /\ \E sampleRate \in FilterSampleRates : filter = BiquadFilter(sampleRate)
    /\ filterOp = "BiquadFilter"
    /\ filteredWith = <<>>
    /\ PoolConstructed
    /\ OutputConstructed
    /\ controlChangeCallback \in BOOLEAN
    /\ polyAftertouchCallback = TRUE
    /\ UnitsConstructed

\* decoder.process(data)
ControlProcessByte ==
    /\ \E data \in ControlStatusBytes(listenChannel) \cup ControlDataBytes :
        ProcessData(data, FALSE)
    /\ UNCHANGED appVars

ControlNext == ControlProcessByte

ControlSpec == ControlInit /\ [][ControlNext]_vars

-----------------------------------------------------------------------------
(* AftertouchSpec: a StreamProcessor constructed with or without an
   aftertouch hook, fed NoteOn, NoteOff and PolyAftertouch messages. *)

\* Data bytes of the streams: two notes, also used as velocities and
\* pressures, and the velocity 0.
AftertouchDataBytes == {0, 60, 61}

\* Status bytes of the streams.
AftertouchStatusBytes(ch) ==
    {NOTE_ON_COMMAND + ch, NOTE_OFF_COMMAND + ch, POLY_AFTERTOUCH_COMMAND + ch}

\* StreamProcessor::StreamProcessor with polyAftertouchCallback given or
\* left nullptr
AftertouchInit ==
    /\ Constructed(ListenChannels, 1..MaxVoices)
    /\ NoLoop("none")
    /\ \E sampleRate \in EnvSampleRates : env = AdsrEnvelope(sampleRate)
    /\ envOp = "AdsrEnvelope"
    /\ \E sampleRate \in FilterSampleRates : filter = BiquadFilter(sampleRate)
    /\ filterOp = "BiquadFilter"
    /\ filteredWith = <<>>
    /\ PoolConstructed
    /\ OutputConstructed
    /\ controlChangeCallback = TRUE
    /\ polyAftertouchCallback \in BOOLEAN
    /\ UnitsConstructed

\* decoder.process(data)
AftertouchProcessByte ==
    /\ \E data \in AftertouchStatusBytes(listenChannel)
                    \cup AftertouchDataBytes :
        ProcessData(data, FALSE)
    /\ UNCHANGED appVars

AftertouchNext == AftertouchProcessByte

AftertouchSpec == AftertouchInit /\ [][AftertouchNext]_vars

-----------------------------------------------------------------------------
(* BroadcastSpec: SynthApplication fed PitchBend, ControlChange and NoteOn
   messages; the control-change hook is handleCC on the pool of voices. *)

\* The controller of the base cutoff in handleCC.
CUTOFF_CONTROLLER == 20

\* Data bytes of the streams: controller 20, the pitch-bend centre MSB,
\* the smallest and the largest data byte; also notes and velocities.
BroadcastDataBytes == {0, CUTOFF_CONTROLLER, 64, 127}

\* Status bytes of the streams.
BroadcastStatusBytes(ch) ==
    {NOTE_ON_COMMAND + ch, CONTROL_CHANGE_COMMAND + ch,
     PITCH_BEND_COMMAND + ch}

\* SynthApplication::SynthApplication without a program storage
BroadcastInit ==
    /\ Constructed(ListenChannels, {MaxVoices})
    /\ NoLoop("none")
    /\ \E sampleRate \in EnvSampleRates : env = AdsrEnvelope(sampleRate)
    /\ envOp = "AdsrEnvelope"
    /\ \E sampleRate \in FilterSampleRates : filter = BiquadFilter(sampleRate)
    /\ filterOp = "BiquadFilter"
    /\ filteredWith = <<>>
    /\ PoolConstructed
    /\ OutputConstructed
    /\ HooksConstructed
    /\ UnitsConstructed

\* SynthApplication::processMidiByte(data); the value of a ControlChange is
\* one of the values handleCC is evaluated for.
BroadcastProcessByte ==
    /\ \E data \in BroadcastStatusBytes(listenChannel)
                    \cup BroadcastDataBytes :
        /\ (currentCommand = CONTROL_CHANGE_COMMAND
                /\ processorState = "Need1Byte" /\ ~StatusByte(data))
            => data \in ValueInputs
        /\ ProcessCall(data, FALSE)
        /\ LET ev == process(World, listenChannel, data).ev
           IN  IF ev.hook = "controlChangeCallback"
               THEN /\ synths' = handleCC(synths, ev.args[2], ev.args[3])
                    /\ appOp' = "handleCC"
               ELSE UNCHANGED <<synths, appOp>>
    /\ UNCHANGED <<synthsBefore, loadRet>>
    /\ UNCHANGED <<envVars, filterVars, outputVars, appVars>>

BroadcastNext == BroadcastProcessByte

BroadcastSpec == BroadcastInit /\ [][BroadcastNext]_vars

-----------------------------------------------------------------------------
(* CycleSpec: SynthApplication::handleCC called for the controllers that
   cycle the filter mode and the waveshaper, for the drive and for the
   waveform shape. *)

\* The controllers and the values of the calls: both sides of 63.
CycleControllers == {96, 102, 74, 1}
CycleValues == {0, 63, 64, 127}

CycleInit ==
    /\ Constructed(ListenChannels, {MaxVoices})
    /\ NoLoop("none")
    /\ \E sampleRate \in EnvSampleRates : env = AdsrEnvelope(sampleRate)
    /\ envOp = "AdsrEnvelope"
    /\ \E sampleRate \in FilterSampleRates : filter = BiquadFilter(sampleRate)
    /\ filterOp = "BiquadFilter"
    /\ filteredWith = <<>>
    /\ PoolConstructed
    /\ OutputConstructed
    /\ HooksConstructed
    /\ UnitsConstructed

\* SynthApplication::handleCC(channel, cc, value, allocator); the call is
\* kept as the last event.
CycleHandleCC ==
    /\ \E cc \in CycleControllers, value \in CycleValues :
        /\ (cc = 1) => value \in ValueInputs
        /\ synths' = handleCC(synths, cc, value)
        /\ outputProcessor' = handleCCOutput(outputProcessor, cc, value)
        /\ last' = [NoEvent EXCEPT !.op = "handleCC", !.note = cc,
                                   !.data = value]
    /\ synthsBefore' = synths
    /\ appOp' = "handleCC"
    /\ UNCHANGED <<loadRet, voiceSamples, monoSample, outSample>>
    /\ UNCHANGED <<envVars, filterVars, hookVars, unitVars>>
    /\ UNCHANGED <<listenChannel, decoderVars, voices, lastAllocatedIndex,
                   streamVars, callVars, appVars>>

CycleNext == CycleHandleCC

CycleSpec == CycleInit /\ [][CycleNext]_vars

-----------------------------------------------------------------------------
(* A WavetableOscillator on its own, driven with the frequencies a voice
   computes from a note, a pitch bend and a pitch-bend range. *)

\* The lowest, the reference and the highest MIDI note.
OscNotes == {0, 69, 127}
\* setPitchBend(bendAmount): full bend down, none, full bend up.
OscBends == {0 - One, 0, One}
\* setPitchBendRange(semitones): the default and two octaves.
OscRanges == {2, 24}

\* Turns of phase_ after which no further sample is taken.
MaxTurns == 2

OscInit ==
    /\ Constructed(ListenChannels, {1})
    /\ NoLoop("none")
    /\ PartsConstructed

OscUnchanged ==
    /\ UNCHANGED <<listenChannel, decoderVars, voices, lastAllocatedIndex,
                   last, streamVars, callVars, appVars>>
    /\ UNCHANGED <<envVars, filterVars, poolVars, outputVars, hookVars>>
    /\ UNCHANGED <<kbdVars, clipVars>>

\* WavetableOscillator::reset()
OscReset ==
    /\ oscOp # "reset"
    /\ oscillator' = oscillatorReset(oscillator)
    /\ oscOp' = "reset"
    /\ UNCHANGED <<oscFrequency, oscRead>>
    /\ OscUnchanged

\* WavetableOscillator::nextSample(frequency) as WavetableSynth::nextSample()
\* calls it.
OscNextSample ==
    /\ oscillator.phase_ < MaxTurns * PhaseOne
    /\ \E note \in OscNotes, bend \in OscBends, range \in OscRanges :
        LET frequency == synthFrequency(noteFrequencyHz(note), bend, range)
            ret == wavetableNextSample(oscillator, frequency)
        IN  /\ oscillator' = ret.o
            /\ oscFrequency' = frequency
            /\ oscRead' = <<ret.index0, ret.index1>>
    /\ oscOp' = "nextSample"
    /\ OscUnchanged

OscNext == OscReset \/ OscNextSample

OscSpec == OscInit /\ [][OscNext]_vars

-----------------------------------------------------------------------------
(* A MidiKeyboardController from its construction: the calibration scans,
   then scans of keys at rest, touched and pressed. *)

\* The readings of a scan while the controller calibrates: one key reads
\* higher than the other.
CalibrationReadings ==
    {[i \in Keys |-> IF i = high THEN 130 ELSE 100] : high \in Keys}

\* The readings of a later scan: the keys at rest, both touched, and the
\* first pressed hard.
ScanReadings ==
    {[i \in Keys |-> 100], [i \in Keys |-> 140],
     [i \in Keys |-> IF i = 0 THEN 260 ELSE 140]}

\* Scans made after the calibration.
MaxScans == 4

BaseNotes == {60, 61}

KbdInit ==
    /\ Constructed(ListenChannels, {1})
    /\ NoLoop("none")
    /\ PartsConstructed

KbdUnchanged ==
    /\ UNCHANGED <<listenChannel, decoderVars, voices, lastAllocatedIndex,
                   last, streamVars, callVars, appVars>>
    /\ UNCHANGED <<envVars, filterVars, poolVars, outputVars, hookVars>>
    /\ UNCHANGED <<oscVars, clipVars>>

\* The last NoteOn or NoteOff among the messages sent for a key, or what it
\* was before.
KeyLastAfter(before, out, key) ==
    LET sent == SelectSeq(out, LAMBDA m : m.key = key /\ m.bytes[1] # 160)
    IN  IF sent = <<>> THEN before
        ELSE IF sent[Len(sent)].bytes[1] = 144 THEN "NoteOn" ELSE "NoteOff"

\* processScan() with the readings the scanner holds
KbdProcessScan ==
    /\ numScans < CALIBRATION_SCANS + MaxScans
    /\ \E readings \in IF kbd.isCalibrated_ THEN ScanReadings
                       ELSE CalibrationReadings :
        LET r == processScan(kbd, readings)
        IN  /\ kbd' = r.k
            /\ midiOut' = r.out
            /\ kbdReadings' = readings
            /\ keyLast' = [i \in Keys |-> KeyLastAfter(keyLast[i], r.out, i)]
    /\ kbdOp' = "processScan"
    /\ numScans' = numScans + 1
    /\ KbdUnchanged

\* setBaseNote(baseNote)
KbdSetBaseNote ==
    /\ \E baseNote \in BaseNotes :
        /\ baseNote # kbd.baseNote_
        /\ kbd' = setBaseNote(kbd, baseNote)
    /\ kbdOp' = "setBaseNote"
    /\ UNCHANGED <<kbdReadings, midiOut, keyLast, numScans>>
    /\ KbdUnchanged

KbdNext == KbdProcessScan \/ KbdSetBaseNote

KbdSpec == KbdInit /\ [][KbdNext]_vars

-----------------------------------------------------------------------------
(* SynthApplication with a clipboard: program changes, the controllers that
   copy and paste, and a controller that changes a voice parameter. *)

ClipControllers == {CUTOFF_CONTROLLER, 103, 104}
ClipPrograms == {1, 2}

\* SynthApplication::SynthApplication with or without a program storage
\* (loadProgram() of program 1 when there is one), then setClipboard() or
\* not.
ClipInit ==
    /\ Constructed(ListenChannels, {1})
    /\ NoLoop("none")
    /\ \E sampleRate \in EnvSampleRates : env = AdsrEnvelope(sampleRate)
    /\ envOp = "AdsrEnvelope"
    /\ \E sampleRate \in FilterSampleRates : filter = BiquadFilter(sampleRate)
    /\ filterOp = "BiquadFilter"
    /\ filteredWith = <<>>
    /\ ClipConstructed(BOOLEAN, BOOLEAN)
    /\ \E sampleRate \in EnvSampleRates, file \in ProgramFiles :
        /\ synthsBefore = VoicePool(MaxVoices, sampleRate)
        /\ synths = IF app.programStorage_
                    THEN loadProgram(file, synthsBefore).synths
                    ELSE synthsBefore
        /\ loadRet = IF app.programStorage_
                     THEN loadProgram(file, synthsBefore).ret
                     ELSE "none"
    /\ appOp = "SynthApplication"
    /\ OutputConstructed
    /\ HooksConstructed
    /\ OscConstructed
    /\ KbdConstructed

ClipUnchanged ==
    /\ UNCHANGED <<listenChannel, decoderVars, voices, lastAllocatedIndex,
                   streamVars, callVars, appVars, hookVars>>
    /\ UNCHANGED <<envVars, filterVars, oscVars, kbdVars>>
    /\ UNCHANGED <<voiceSamples, monoSample, outSample>>

\* SynthApplication::handleCC(channel, cc, value, allocator)
ClipHandleCC ==
    /\ \E cc \in ClipControllers, value \in ValueInputs, opens \in BOOLEAN :
        LET clip == cc \in {103, 104} /\ value * 2 > 127
                        /\ app.clipboardSet
            r == handleCCClipboard(app, synths, cc, opens)
        IN  /\ app' = IF clip THEN r.a ELSE app
            /\ synths' = IF clip THEN r.synths
                         ELSE handleCC(synths, cc, value)
            /\ saved' = IF clip THEN saved \cup r.written ELSE saved
            /\ copySeen' = (copySeen \/ cc = 103)
            /\ outputProcessor' = handleCCOutput(outputProcessor, cc, value)
            /\ last' = [NoEvent EXCEPT !.op = "handleCC", !.note = cc,
                                       !.data = value]
    /\ synthsBefore' = synths
    /\ appOp' = "handleCC"
    /\ UNCHANGED loadRet
    /\ ClipUnchanged

\* SynthApplication::handleProgramChange(channel, program, allocator)
ClipProgramChange ==
    /\ \E program \in ClipPrograms, file \in ProgramFiles :
        /\ app' = [app EXCEPT !.currentProgram_ = program]
        /\ synths' = IF app.programStorage_
                     THEN loadProgram(file, synths).synths
                     ELSE synths
        /\ loadRet' = IF app.programStorage_
                      THEN loadProgram(file, synths).ret
                      ELSE loadRet
        /\ last' = [NoEvent EXCEPT !.op = "handleProgramChange",
                                   !.note = program]
    /\ synthsBefore' = synths
    /\ appOp' = "loadProgram"
    /\ UNCHANGED <<saved, copySeen, outputProcessor>>
    /\ ClipUnchanged

ClipNext == ClipHandleCC \/ ClipProgramChange

ClipSpec == ClipInit /\ [][ClipNext]_vars

-----------------------------------------------------------------------------
(* Properties *)

\* The assignment of slot i: what allocate() and findAllocated() compare.
Assignment(vs, i) == <<vs[i].isAllocated, vs[i].assignedNote>>

\* A step that is a call of allocate() / of process().
AllocateStep == numCalls' = numCalls + 1 /\ last'.op = "allocate"
ProcessStep == numBytes' = numBytes + 1

\* The result of feeding the bytes of a sequence to process(), one by one.
RECURSIVE Feed(_, _, _)
Feed(w, ch, bytes) ==
    IF Len(bytes) = 1 THEN process(w, ch, bytes[1])
    ELSE Feed(process(w, ch, bytes[1]).w, ch, Tail(bytes))

\* C1: a complete NoteOff(n) on the listen channel, received while no slot is
\* allocated to n, is a no-op: no slot's assignment changes, no slot is
\* stolen and release() is called on no voice.
C1_NoteOffUnallocatedIsNoOp ==
    [][(/\ ProcessStep
        /\ last'.msg = NOTE_OFF_COMMAND
        /\ findAllocated(voices, last'.note) = nullptr)
       => (/\ \A i \in DOMAIN voices :
                Assignment(voices', i) = Assignment(voices, i)
           /\ ~last'.stole
           /\ last'.released = <<>>)]_vars

\* C2: the number of slot assignments (free slot taken or slot stolen) made
\* by a byte stream is at most the number of complete NoteOn messages with
\* velocity > 0 on the listen channel in it.
C2_AssignedAtMostNoteOns == numAssigned <= numNoteOn

\* C3: for every note at most one slot is allocated to it.
C3_OneSlotPerNote ==
    \A n \in Notes :
        Cardinality({i \in DOMAIN voices :
                        voices[i].isAllocated /\ voices[i].assignedNote = n}) <= 1

\* C3 witness: a full pool of at least two voices in which a slot has just
\* been stolen.
C3_Witness ==
    /\ maxVoices >= 2
    /\ \A i \in DOMAIN voices : voices[i].isAllocated
    /\ last.op = "allocate" /\ last.stole

\* C4: findAllocated(n) returns a voice only if the most recent assignment of
\* its slot was made by an allocate(n) that returned it; after a steal,
\* findAllocated of the old note returns nothing and findAllocated of the new
\* note returns the stolen voice; findAllocated changes no allocator state.
C4_FindAllocatedSound ==
    /\ [](\A n \in Notes :
            LET v == findAllocated(voices, n)
            IN  v # nullptr => assignedBy[v] = n)
    /\ [][/\ (AllocateStep /\ last'.stole) =>
                /\ findAllocated(voices', voices[last'.ret].assignedNote)
                       = nullptr
                /\ findAllocated(voices', last'.note) = last'.ret
          /\ (numCalls' = numCalls + 1 /\ last'.op = "findAllocated") =>
                /\ voices' = voices
                /\ lastAllocatedIndex' = lastAllocatedIndex]_vars

\* C4 witness: findAllocated has just found nothing for a note that was
\* requested earlier (its slot was stolen), in a pool of two or more voices.
C4_Witness ==
    /\ maxVoices >= 2
    /\ last.op = "findAllocated"
    /\ last.ret = nullptr
    /\ last.note \in notesRequested
    /\ \E n \in Notes : findAllocated(voices, n) > 0

\* C5: allocate(n) with every slot allocated and none allocated to n takes
\* the lowest-index slot whose voice is not active if there is one, otherwise
\* the slot (lastAllocatedIndex + 1) mod N, which becomes lastAllocatedIndex;
\* the other slots keep their assignment.
C5_StealChoice ==
    [][(/\ AllocateStep
        /\ \A i \in DOMAIN voices : voices[i].isAllocated
        /\ findAllocated(voices, last'.note) = nullptr)
       => LET inactive == {i \in DOMAIN voices :
                              ~SynthIsActive(voices[i].synth)}
              chosen == last'.ret
          IN  /\ inactive # {} => chosen = Min(inactive)
              /\ inactive = {} =>
                    /\ chosen = (lastAllocatedIndex + 1) % maxVoices
                    /\ lastAllocatedIndex' = chosen
              /\ Assignment(voices', chosen) = <<TRUE, last'.note>>
              /\ \A j \in DOMAIN voices \ {chosen} :
                    Assignment(voices', j) = Assignment(voices, j)]_vars

\* C5 witness: a steal has just taken an inactive voice that is not the
\* first of the pool, while another voice is active.
C5_Witness ==
    /\ last.op = "allocate" /\ last.stole
    /\ last.ret > 0
    /\ ~SynthIsActive(voices[last.ret].synth)
    /\ \E i \in DOMAIN voices : SynthIsActive(voices[i].synth)

\* C6: when allocate() steals a slot it calls release() on that slot's voice
\* exactly once, and the voice it returns is not active when returned.
C6_StolenVoiceInactive ==
    (last.op = "allocate" /\ last.stole) =>
        /\ last.released = <<last.ret>>
        /\ ~SynthIsActive(voices[last.ret].synth)

\* C7: while all voices stay active, consecutive stealing allocate() calls,
\* up to N of them, steal distinct slots.
C7_RoundRobinDistinct ==
    \A i, j \in 1..Len(stealRun) : i # j => stealRun[i] # stealRun[j]

\* C7 witness: N consecutive steals with all voices active, N >= 2.
C7_Witness == maxVoices >= 2 /\ Len(stealRun) = maxVoices

\* C8: allocate(n) while a slot is allocated to n returns that slot's voice,
\* the one the allocate(n) that assigned the slot returned, and changes no
\* allocator state and releases nothing.
C8_SameNoteSameVoice ==
    [][(AllocateStep /\ findAllocated(voices, last'.note) # nullptr)
       => /\ last'.ret = findAllocated(voices, last'.note)
          /\ assignedBy[last'.ret] = last'.note
          /\ voices' = voices
          /\ lastAllocatedIndex' = lastAllocatedIndex
          /\ ~last'.assigned /\ ~last'.stole
          /\ last'.released = <<>>]_vars

\* C8 witness: allocate(n) has just returned the voice already allocated to
\* n, which is not the first of the pool.
C8_Witness ==
    /\ last.op = "allocate" /\ ~last.assigned
    /\ last.ret > 0
    /\ voices[last.ret].assignedNote = last.note

\* C9: while a slot is unallocated, allocate of a note that is not allocated
\* takes the lowest-index unallocated slot and steals nothing; the first
\* maxVoices distinct notes get distinct voices; once more than maxVoices
\* distinct notes were requested the voices returned are the whole pool.
C9_FreeSlotsFirst ==
    /\ [](/\ Cardinality(notesRequested) <= maxVoices =>
                Cardinality(voicesReturned) = Cardinality(notesRequested)
          /\ Cardinality(notesRequested) > maxVoices =>
                voicesReturned = DOMAIN voices)
    /\ [][(/\ AllocateStep
           /\ \E i \in DOMAIN voices : ~voices[i].isAllocated
           /\ findAllocated(voices, last'.note) = nullptr)
          => LET free == {i \in DOMAIN voices : ~voices[i].isAllocated}
             IN  /\ last'.ret = Min(free)
                 /\ ~last'.stole
                 /\ last'.released = <<>>
                 /\ Assignment(voices', Min(free)) = <<TRUE, last'.note>>
                 /\ \A j \in DOMAIN voices \ {Min(free)} :
                        voices'[j] = voices[j]]_vars

\* C9 witness: more distinct notes than voices have been requested from a
\* pool of two or more voices.
C9_Witness == maxVoices >= 2 /\ Cardinality(notesRequested) > maxVoices

\* C10: a complete NoteOn(n, 0) leaves the allocator and every voice as a
\* complete NoteOff(n, v), whatever v, would have left them from the same
\* allocator and voice state: same voices, same round-robin index, same
\* release() calls, no trigger().
C10_NoteOnZeroIsNoteOff ==
    [][(ProcessStep /\ last'.msg = NOTE_ON_COMMAND /\ last'.data = 0)
       => \A v \in DataBytes :
            LET off == Feed(World, listenChannel,
                            <<NOTE_OFF_COMMAND + listenChannel,
                              last'.note, v>>)
            IN  /\ off.ev.msg = NOTE_OFF_COMMAND
                /\ voices' = off.w.voices
                /\ lastAllocatedIndex' = off.w.lastAllocatedIndex
                /\ last'.released = off.ev.released
                /\ last'.triggered = <<>> /\ off.ev.triggered = <<>>]_vars

\* C10 witness: a NoteOn with velocity 0 has just released a sounding voice.
C10_Witness ==
    /\ last.op = "process"
    /\ last.msg = NOTE_ON_COMMAND /\ last.data = 0
    /\ last.released = <<last.ret>>
    /\ voices[last.ret].synth.ampEnvelope_.phase_ = "RELEASE"

InputBytes == StatusBytes(listenChannel) \cup DataBytes

\* C12: in every decoder state process() of a byte in 0xF8..0xFF changes
\* nothing (running status, expected data bytes, buffered data byte,
\* allocator, voices) and calls no hook, so that a real-time byte put before
\* the last data byte of a message leaves the effect of the message as it
\* was.
C12_RealTimeTransparent ==
    /\ [](/\ \A rt \in SYSTEM_REALTIME_MIN..SYSTEM_REALTIME_MAX :
                process(World, listenChannel, rt) = [w |-> World, ev |-> NoEvent]
          /\ processorState = "Need1Byte" =>
                \A b \in DataBytes :
                    Feed(World, listenChannel, <<SYSTEM_REALTIME_MAX, b>>)
                        = process(World, listenChannel, b))
    /\ [][(ProcessStep /\ last'.byte >= SYSTEM_REALTIME_MIN) =>
            /\ UNCHANGED <<decoderVars, voices, lastAllocatedIndex>>
            /\ last' = [NoEvent EXCEPT !.byte = last'.byte]]_vars

\* C12 witness: a real-time byte has just been processed between the two
\* data bytes of a NoteOn, with a voice sounding.
C12_Witness ==
    /\ last.op = "process" /\ last.byte = SYSTEM_REALTIME_MIN
    /\ processorState = "Need1Byte"
    /\ currentCommand = NOTE_ON_COMMAND
    /\ \E i \in DOMAIN voices : SynthIsActive(voices[i].synth)

\* Channel-voice commands with two data bytes that the decoder acts on, and
\* the ones with one data byte (ProgramChange, and ChannelPressure, for which
\* the decoder has no handler).
TwoByteCommands ==
    {NOTE_OFF_COMMAND, NOTE_ON_COMMAND, POLY_AFTERTOUCH_COMMAND,
     CONTROL_CHANGE_COMMAND, PITCH_BEND_COMMAND}
OneByteCommands == {PROGRAM_CHANGE_COMMAND, PROGRAM_CHANGE_COMMAND + 16}

\* A step that is process() of a data byte.
DataByteStep == ProcessStep /\ last'.byte >= 0 /\ last'.byte < STATUS_BYTE_MASK

StatusByteStep ==
    /\ ProcessStep
    /\ last'.byte >= STATUS_BYTE_MASK /\ last'.byte < SYSTEM_REALTIME_MIN

\* The event of a call that did nothing besides changing the decoder state.
Silent(ev) == [ev EXCEPT !.byte = -1] = NoEvent

\* C14: a non-real-time status byte itself never acts (no allocate, trigger,
\* release or hook), whatever was buffered when it arrived; a message of a
\* two-data-byte command that acts afterwards is made of two data bytes that
\* both arrived after the latest status byte, and a ProgramChange of the one
\* data byte that completes it: a byte buffered before a status byte is part
\* of no message.
C14_InterruptedMessageDiscarded ==
    [][/\ StatusByteStep =>
            /\ Silent(last')
            /\ UNCHANGED <<voices, lastAllocatedIndex>>
       /\ (ProcessStep /\ ~Silent(last')) =>
            /\ last'.byte = last'.data
            /\ last'.msg = currentCommand
            /\ last'.msg \in TwoByteCommands =>
                    /\ dataRun >= 1
                    /\ prevData # -1
                    /\ last'.note = prevData
            /\ last'.msg \notin TwoByteCommands =>
                    /\ last'.msg = PROGRAM_CHANGE_COMMAND
                    /\ last'.note = 0]_vars

\* C14 witness: a status byte cut off a message after its first data byte,
\* and the NoteOn that followed it has just triggered a voice; that is the
\* only slot allocated, so the cut-off message allocated nothing.
C14_Witness ==
    /\ interrupted
    /\ dataRun = 2 /\ msgRun = 1
    /\ numBytes = 5
    /\ last.msg = NOTE_ON_COMMAND /\ last.data > 0
    /\ last.triggered = <<last.ret>>
    /\ Cardinality({i \in DOMAIN voices : voices[i].isAllocated}) = 1

\* No status byte on the listen channel is in force: none has arrived yet, or
\* the latest non-real-time status byte is on another channel.
NotListening ==
    lastStatus = -1 \/ lastStatus % (CHANNEL_MASK + 1) # listenChannel

\* C15: while no status byte has arrived, or the latest non-real-time status
\* byte is on another channel than listenChannel, no message is acted on:
\* every data byte is silent (no allocate, trigger, release or hook) and
\* changes no voice and no allocator state, however many follow and whatever
\* running status was in force before.
C15_WrongChannelSilent ==
    /\ [](NotListening => msgRun = 0 /\ currentCommand = 0)
    /\ [][(ProcessStep /\ NotListening') =>
            /\ Silent(last')
            /\ UNCHANGED <<voices, lastAllocatedIndex>>]_vars

\* C15 witness: a NoteOn on the listen channel sounded a voice, a NoteOn
\* status byte on another channel followed, and its two data bytes have been
\* processed without an event.
C15_Witness ==
    /\ numNoteOn = 1
    /\ lastStatus = NOTE_ON_COMMAND + ((listenChannel + 1) % 16)
    /\ dataRun = 2
    /\ last.op = "process" /\ last.byte = prevData
    /\ Silent(last)
    /\ Cardinality({i \in DOMAIN voices : voices[i].isAllocated}) = 1

\* The latest non-real-time status byte is a system byte, 0xF0..0xF7.
AfterSystemByte ==
    lastStatus >= SYSTEM_REALTIME_MIN - 8 /\ lastStatus < SYSTEM_REALTIME_MIN

\* C16: on every listen channel a byte in 0xF0..0xF7 ends the running status
\* (no channel-voice command is current afterwards), and from that byte until
\* the next status byte on the listen channel no byte acts: no allocate,
\* trigger, release or hook, no change of a voice or of allocator state.
C16_SystemByteClearsRunningStatus ==
    /\ []((AfterSystemByte \/ NotListening) =>
            /\ currentCommand \notin TwoByteCommands \cup OneByteCommands
            /\ msgRun = 0)
    /\ [][(ProcessStep /\ (AfterSystemByte' \/ NotListening')) =>
            /\ Silent(last')
            /\ UNCHANGED <<voices, lastAllocatedIndex>>]_vars

\* C16 witness: on a listen channel whose number is the low nibble of the
\* system byte (so that the channel test lets the byte through), a NoteOn
\* sounded a voice, the system byte followed, and two data bytes after it
\* have been processed without an event.
C16_Witness ==
    /\ numNoteOn = 1
    /\ AfterSystemByte
    /\ lastStatus % (CHANNEL_MASK + 1) = listenChannel
    /\ listenChannel > 0
    /\ dataRun = 2
    /\ last.op = "process" /\ last.byte = prevData
    /\ Silent(last)
    /\ SynthIsActive(voices[0].synth)

\* C17: every process() call is made by the thread of the audio loop, and
\* while that thread is outside renderAudio.
C17_ProcessOnAudioThreadOnly ==
    [][ProcessStep => (processedBy' = "audio" /\ audioPc = "midi")]_vars

\* C18: once the audio loop runs, loadProgram is not executed on the thread
\* of the audio loop.
C18_NoLoadOnAudioThread == loadedBy # "audio"

\* C19: no heap allocation or deallocation happens after construction.
C19_NoHeapAfterConstruction == heapOps = 0

\* The pool after k iterations of the mixing loop from the pool vs.
RECURSIVE Mixed(_, _)
Mixed(vs, k) == IF k = 0 THEN vs ELSE Mixed(forEachVoiceNextSample(vs), k - 1)

\* C20: inside a block every sample is computed from the pool as the MIDI
\* messages processed before the block left it (the pool is what the mixing
\* loop alone made of the pool at the block's start), and no process() call
\* changes a voice or allocator state while a block is being rendered.
C20_BlockSeesMidiBefore ==
    /\ [](audioPc = "render" => voices = Mixed(blockStart, frame))
    /\ [][(ProcessStep /\ <<voices', lastAllocatedIndex'>>
                              # <<voices, lastAllocatedIndex>>)
          => audioPc = "midi"]_vars

-----------------------------------------------------------------------------
(* AdsrEnvelope *)

\* The phase changes nextSample() can make: none, or one step forward.
PhaseSteps ==
    {<<ph, ph>> : ph \in {"IDLE", "ATTACK", "DECAY", "SUSTAIN", "RELEASE"}}
        \cup {<<"ATTACK", "DECAY">>, <<"DECAY", "SUSTAIN">>,
              <<"RELEASE", "IDLE">>}

C23_ReleaseReachesIdle ==
    /\ [](envOp = "release" => <>(~isActive(env) \/ envOp = "trigger"))
    /\ [][(~isActive(env) /\ envOp' # "trigger")
            => (~isActive(env') /\ env'.level_ = 0)]_vars

\* C24: after any sequence of setter calls the rates in use are the formulas
\* applied to the current parameters: attack 1/(attack*sampleRate), decay
\* (1-sustain)/(decay*sampleRate), release sustain/(release*sampleRate),
\* and 1.0 for a time of zero.
C24_RatesFollowParameters ==
    /\ env.attackRate_ =
            (IF env.attackTime_ = 0 THEN One
             ELSE (One * 1000) \div (env.attackTime_ * env.sampleRate_))
    /\ env.decayRate_ =
            (IF env.decayTime_ = 0 THEN One
             ELSE ((One - env.sustainLevel_) * 1000)
                    \div (env.decayTime_ * env.sampleRate_))
    /\ env.releaseRate_ =
            (IF env.releaseTime_ = 0 THEN One
             ELSE (env.sustainLevel_ * 1000)
                    \div (env.releaseTime_ * env.sampleRate_))

\* C25: the envelope level, which nextSample() returns, is within [0, 1]
\* after every sequence of trigger, release, nextSample and setter calls.
C25_LevelInRange == env.level_ \in 0..One

-----------------------------------------------------------------------------
(* BiquadFilter *)

\* The parameters the coefficients depend on.
FilterParameters(f) == <<f.mode_, f.cutoffHz_, f.q_>>

\* C27: every processSample() filters with the coefficients of the current
\* (mode, cutoff, Q): a setMode/setCutoff/setQ that changes a value sets the
\* dirty flag, the next processSample() recomputes the coefficients before
\* filtering and leaves the flag clear, and the flag is never clear while
\* the cached coefficients differ from those of the current parameters.
C27_CoefficientsCurrent ==
    /\ [](~filter.coeffsDirty_ => filter.coeffs =
            Coefficients(filter.mode_, filter.cutoffHz_, filter.q_))
    /\ [][/\ FilterParameters(filter') # FilterParameters(filter)
                => filter'.coeffsDirty_
          /\ filterOp' = "processSample" =>
                /\ filteredWith' = Coefficients(filter'.mode_,
                                        filter'.cutoffHz_, filter'.q_)
                /\ FilterParameters(filter') = FilterParameters(filter)
                /\ ~filter'.coeffsDirty_]_vars

\* C27 witness: processSample() found the flag set by setCutoff() and
\* filtered with the coefficients of the new cutoff.
C27_Witness ==
    /\ filterOp = "processSample"
    /\ filteredWith[2] # Hz(1000)
    /\ filteredWith = filter.coeffs

-----------------------------------------------------------------------------
(* Program storage *)

\* The parameters of every voice of a pool.
Parameters(pool) == [i \in DOMAIN pool |-> captureFromVoice(pool[i])]

\* C21 (as stated): when loadProgram fails (file missing, unreadable or
\* unparsable) it returns false and every voice parameter is left exactly as
\* it was before the call.
C21_FailedLoadKeepsParameters ==
    (appOp = "loadProgram" /\ loadRet = FALSE)
        => Parameters(synths) = Parameters(synthsBefore)

\* C21 (amended): when loadProgram fails it returns false and has set every
\* voice parameter of every voice to the ProgramData default: shape 0.0,
\* base cutoff 1000 Hz, Q 0.707, low-pass, filter-envelope amount 0.5,
\* attack 5 ms, decay 200 ms, sustain 0.3, release 100 ms.
C21_FailedLoadAppliesDefaults ==
    (appOp = "loadProgram" /\ loadRet = FALSE)
        => \A i \in DOMAIN synths :
            /\ synths[i].oscillator_.wavetable_ = 0
            /\ synths[i].baseCutoff_ = Hz(1000)
            /\ synths[i].filter_.q_ = 707
            /\ synths[i].filter_.mode_ = "LOWPASS"
            /\ synths[i].filterEnvAmount_ = One \div 2
            /\ synths[i].filterEnvelope_.attackTime_ = 5
            /\ synths[i].filterEnvelope_.decayTime_ = 200
            /\ synths[i].filterEnvelope_.sustainLevel_ = (3 * One) \div 10
            /\ synths[i].filterEnvelope_.releaseTime_ = 100

\* C21 witness: a load failed on a pool whose parameters were not the
\* defaults.
C21_Witness ==
    /\ appOp = "loadProgram"
    /\ loadRet = FALSE
    /\ Parameters(synthsBefore) # Parameters(synths)


-----------------------------------------------------------------------------
(* The output stage *)

\* No voice of the pool has a non-Idle amplitude envelope.
AllIdle(pool) == \A i \in DOMAIN pool : ~synthIsActive(pool[i])

\* A voice whose amplitude envelope was Idle when the last frame was
\* rendered contributed exactly 0 and is as it was.
IdleVoicesUntouched ==
    \A i \in DOMAIN synths :
        ~synthIsActive(synthsBefore[i]) =>
            voiceSamples[i] = 0 /\ synths[i] = synthsBefore[i]

-----------------------------------------------------------------------------
(* Parameter ranges *)

\* The stored parameters of a filter are within the limits of setCutoff()
\* and setQ().
FilterInRange(f) ==
    /\ f.cutoffHz_ \in minCutoff..maxCutoff(f)
    /\ f.q_ \in minQ..maxQ

\* The stored parameters of a voice are within their ranges.  The cutoff
\* of its filter is left to the filter used on its own, which runs at the
\* default sample rate: the pool runs at a rate whose Nyquist frequency is
\* below the cutoff the constructor stores.
VoiceInRange(v) ==
    /\ v.filter_.cutoffHz_ >= minCutoff
    /\ v.filter_.q_ \in minQ..maxQ
    /\ v.oscillator_.wavetable_ \in 0..One
    /\ v.ampEnvelope_.sustainLevel_ \in 0..One
    /\ v.filterEnvelope_.sustainLevel_ \in 0..One
    /\ v.filterEnvAmount_ \in 0..One
    /\ v.pitchBend_ \in (-One)..One

\* C26: whatever values were written, no stored parameter is outside its
\* range: cutoff in [20 Hz, 0.99 * Nyquist], Q in [0.1, 20], drive, shape
\* and levels in [0, 1], pitch bend in [-1, +1].
C26_StoredParametersInRange ==
    /\ env.sustainLevel_ \in 0..One
    /\ FilterInRange(filter)
    /\ \A i \in DOMAIN synths : VoiceInRange(synths[i])
    /\ outputProcessor.drive_ \in 0..One
    /\ FilterInRange(outputProcessor.postFilter_)

-----------------------------------------------------------------------------
(* The pool of the allocator *)

\* C29: the pool holds the same voices from construction on: the instances
\* the factory made in the constructor, one for each of its maxVoices
\* calls, and every forEachVoice call, whatever allocate or steal calls
\* preceded it, visits these instances, each exactly once, in the order
\* they were made; the number of slots never changes.
C29_PoolIsFixed ==
    /\ [](forEachVoice(voices) = [k \in 1..maxVoices |-> k - 1])
    /\ [][/\ DOMAIN voices' = DOMAIN voices
          /\ forEachVoice(voices') = forEachVoice(voices)]_vars

\* C29 witness: forEachVoice is called on a full pool after a steal has
\* reassigned a voice.
C29_Witness ==
    /\ last.op = "forEachVoice"
    /\ maxVoices = MaxVoices
    /\ stealRun # <<>>

-----------------------------------------------------------------------------
(* Control changes *)

\* A process() call that is given a data byte while the decoder holds a
\* ControlChange status on the listen channel.
ControlDataStep ==
    /\ ProcessStep
    /\ currentCommand = CONTROL_CHANGE_COMMAND
    /\ ~StatusByte(last'.byte)

\* The decoder, the allocator and every voice are as they were, apart from
\* the position in the message.
NothingActedOn ==
    /\ last'.hook = "none"
    /\ last'.args = <<>>
    /\ last'.triggered = <<>>
    /\ last'.released = <<>>
    /\ ~last'.assigned
    /\ voices' = voices
    /\ lastAllocatedIndex' = lastAllocatedIndex
    /\ currentCommand' = currentCommand

-----------------------------------------------------------------------------
(* Poly aftertouch *)

\* A process() call that is given the second data byte of a PolyAftertouch
\* message on the listen channel.
AftertouchCompleteStep ==
    /\ ProcessStep
    /\ currentCommand = POLY_AFTERTOUCH_COMMAND
    /\ processorState = "Need1Byte"
    /\ ~StatusByte(last'.byte)

\* C31: a complete PolyAftertouch(note, pressure) on the listen channel
\* invokes the aftertouch hook, once, with the voice allocated to the note,
\* when there is such a voice and a hook, and invokes nothing otherwise; in
\* no case is a slot assigned or stolen or a voice triggered, released or
\* changed.
C31_AftertouchHook ==
    [][AftertouchCompleteStep =>
        LET voice == findAllocated(voices, messageByte1)
        IN  /\ IF voice # nullptr /\ polyAftertouchCallback
               THEN /\ last'.hook = "polyAftertouchCallback"
                    /\ last'.args = <<listenChannel, messageByte1,
                                      last'.byte, voice>>
               ELSE /\ last'.hook = "none"
                    /\ last'.args = <<>>
            /\ ~last'.assigned
            /\ ~last'.stole
            /\ last'.triggered = <<>>
            /\ last'.released = <<>>
            /\ voices' = voices
            /\ lastAllocatedIndex' = lastAllocatedIndex]_vars

\* C31 witness: the hook has just been invoked with the voice that a NoteOn
\* allocated to the note.
C31_Witness ==
    /\ last.hook = "polyAftertouchCallback"
    /\ last.ret # nullptr
    /\ voices[last.ret].isAllocated
    /\ voices[last.ret].assignedNote = last.note

-----------------------------------------------------------------------------
(* Broadcast messages *)

\* The slot assignments of the pool.
Assignments(vs) == [i \in DOMAIN vs |-> Assignment(vs, i)]

\* A process() call that is given the second data byte of a message of the
\* command on the listen channel.
CompleteStep(command) ==
    /\ ProcessStep
    /\ currentCommand = command
    /\ processorState = "Need1Byte"
    /\ ~StatusByte(last'.byte)

\* MIN_CUTOFF * pow(MAX_CUTOFF / MIN_CUTOFF, value / 127) at the ends of the
\* controller range.
CutoffOf(value) == IF value = 127 THEN Hz(10000) ELSE Hz(100)

\* C32: a complete PitchBend(lsb, msb) on the listen channel sets the pitch
\* bend of every voice of the pool, allocated or not, active or silent, to
\* ((msb << 7 | lsb) - 8192) / 8192, kept in units of 1/8192, and controller
\* 20 sets the base cutoff of every voice to 100 * 100^(value / 127), at
\* value 0 and 127; neither changes a slot assignment.
C32_BroadcastReachesPool ==
    [][/\ CompleteStep(PITCH_BEND_COMMAND) =>
            /\ \A i \in DOMAIN voices :
                /\ voices'[i].synth.pitchBend_
                        = (last'.byte * 128 + messageByte1) - 8192
                /\ voices'[i].synth.ampEnvelope_
                        = voices[i].synth.ampEnvelope_
            /\ Assignments(voices') = Assignments(voices)
            /\ lastAllocatedIndex' = lastAllocatedIndex
            /\ synths' = synths
       /\ (CompleteStep(CONTROL_CHANGE_COMMAND)
                /\ messageByte1 = CUTOFF_CONTROLLER) =>
            /\ \A i \in DOMAIN synths :
                    synths'[i].baseCutoff_ = CutoffOf(last'.byte)
            /\ voices' = voices
            /\ lastAllocatedIndex' = lastAllocatedIndex]_vars

\* C32 witness: a PitchBend of the largest value has just reached every
\* voice of a pool with an allocated, sounding voice and a free, silent one.
C32_Witness ==
    /\ last.msg = PITCH_BEND_COMMAND
    /\ \A i \in DOMAIN voices :
            voices[i].synth.pitchBend_ = (127 * 128 + 127) - 8192
    /\ \E i \in DOMAIN voices :
            voices[i].isAllocated /\ SynthIsActive(voices[i].synth)
    /\ \E i \in DOMAIN voices :
            ~voices[i].isAllocated /\ ~SynthIsActive(voices[i].synth)

-----------------------------------------------------------------------------
(* Cycling controllers *)

\* The filter modes of the voices of a pool.
FilterModes(pool) == [i \in DOMAIN pool |-> pool[i].filter_.mode_]

\* What the controller cc cycles: the filter mode of the voices (96) or the
\* active waveshaper (102).
Cycled(cc, pool, p) == IF cc = 96 THEN FilterModes(pool) ELSE p.activeIndex_

\* What the controller cc cycles, one step on.
CycledOnce(cc, pool, p) ==
    IF cc = 96
    THEN [i \in DOMAIN pool |-> filterNextMode(pool[0].filter_.mode_)]
    ELSE (p.activeIndex_ + 1) % 3

\* C33: controllers 96 and 102 act on a rising edge.  Of two messages of
\* the same controller in a row, the second advances the filter mode (96)
\* or the waveshaper (102) by exactly one step when the value went from
\* 63 or less to more than 63, and does not advance it when the value was
\* above 63 already or is 63 or less; after controller 96 has acted all
\* voices have the same filter mode.
C33_RisingEdge ==
    [][\A cc \in {96, 102} :
        (/\ last.op = "handleCC" /\ last.note = cc
         /\ last'.op = "handleCC" /\ last'.note = cc) =>
            /\ Cycled(cc, synths', outputProcessor')
                = IF last.data <= 63 /\ last'.data > 63
                  THEN CycledOnce(cc, synths, outputProcessor)
                  ELSE Cycled(cc, synths, outputProcessor)
            /\ \A i, j \in DOMAIN synths' :
                    synths'[i].filter_.mode_ = synths'[j].filter_.mode_]_vars


\* The phase step of one call: frequency / sampleRate_, in units of
\* 1 / PhaseOne.
PhaseStep(frequency) == (frequency * PhaseOne) \div oscillator.sampleRate_

\* The table entries a call read are entries of the table.
IndicesInTable == \A k \in 1..2 : oscRead[k] \in 0..(TABLE_SIZE - 1)

\* C34: after every WavetableOscillator::nextSample(frequency) call, for
\* every frequency a voice can request (any note with any pitch bend and
\* pitch-bend range), the phase is in [0, 1): it has advanced by
\* frequency / sampleRate modulo 1; and the table entries read are within
\* 0..255.
C34_PhaseWraps ==
    [][oscOp' = "nextSample" =>
        /\ oscillator'.phase_ \in 0..(PhaseOne - 1)
        /\ oscillator'.phase_
                = (oscillator.phase_ + PhaseStep(oscFrequency')) % PhaseOne
        /\ IndicesInTable']_vars


NoteHeld(v) ==
    v.isAllocated /\ v.synth.ampEnvelope_.phase_ \in {"ATTACK", "DECAY", "SUSTAIN"}

\* The note of an allocated voice has been released; the voice may still
\* sound its release phase.
NoteReleased(v) ==
    v.isAllocated /\ v.synth.ampEnvelope_.phase_ \in {"RELEASE", "IDLE"}

\* C36: when allocate() has to steal and the pool holds both voices whose
\* note is still held and voices whose note has been released, the slot it
\* steals is one whose note has been released.
C36_StealsReleasedFirst ==
    [][(/\ last'.op = "allocate"
        /\ last'.stole
        /\ \E i \in DOMAIN voices : NoteHeld(voices[i])
        /\ \E i \in DOMAIN voices : NoteReleased(voices[i]))
            => NoteReleased(voices[last'.ret])]_vars


\* The messages of a scan that were sent for a key.
SentFor(out, key) == SelectSeq(out, LAMBDA m : m.key = key)

\* A reading whose ratio to the baseline is in [1.10, 1.20).
InHysteresisBand(reading, baseline) ==
    /\ baseline > 0
    /\ reading * BaselineOne * 10 >= 11 * baseline
    /\ reading * BaselineOne * 10 < 12 * baseline

\* C37: for each key the NoteOn and NoteOff messages alternate, NoteOn
\* first; a PolyAftertouch for a key is sent only between the key's NoteOn
\* and its next NoteOff; and a reading whose ratio to the baseline is in
\* [1.10, 1.20) sends neither NoteOn nor NoteOff and leaves the key's state.
C37_KeyMessagesAlternate ==
    [][kbdOp' = "processScan" =>
        \A i \in Keys :
            /\ Len(SentFor(midiOut', i)) <= 1
            /\ \A n \in 1..Len(SentFor(midiOut', i)) :
                LET status == SentFor(midiOut', i)[n].bytes[1]
                IN  /\ status = 144 => keyLast[i] \in {"none", "NoteOff"}
                    /\ status = 128 => keyLast[i] = "NoteOn"
                    /\ status = 160 => keyLast[i] = "NoteOn"
            /\ (kbd.isCalibrated_
                    /\ InHysteresisBand(kbdReadings'[i], kbd.baselines_[i]))
                => /\ kbd'.keyStates_[i] = kbd.keyStates_[i]
                   /\ keyLast'[i] = keyLast[i]]_vars

\* A key that went on, sent a PolyAftertouch and went off again now reads
\* in the band and stays off.
C37_Witness ==
    /\ kbdOp = "processScan"
    /\ \E i \in Keys :
        /\ keyLast[i] = "NoteOff"
        /\ ~kbd.keyStates_[i]
        /\ kbd.lastAftertouch_[i] > 0
        /\ InHysteresisBand(kbdReadings[i], kbd.baselines_[i])

\* C38: no message is sent by the first CALIBRATION_SCANS processScan()
\* calls, whatever the readings, and isCalibrated() is true from the
\* CALIBRATION_SCANS-th call on and false before it.
C38_CalibrationScans ==
    /\ numScans <= CALIBRATION_SCANS =>
        /\ midiOut = <<>>
        /\ \A i \in Keys : keyLast[i] = "none"
    /\ kbd.isCalibrated_ <=> numScans >= CALIBRATION_SCANS

\* The calibration has just ended, with readings that differed between the
\* scans.
C38_Witness ==
    /\ numScans = CALIBRATION_SCANS
    /\ kbdOp = "processScan"
    /\ kbd.isCalibrated_
    /\ \A i \in Keys :
        kbd.baselines_[i] \notin {100 * BaselineOne, 130 * BaselineOne}


\* C39: for every maxVoices the constructor accepts and every sequence of
\* calls, allocate(note) returns one of the voices of the pool: it takes no
\* remainder by zero and indexes no slot outside the pool.
C39_AllocateReturnsPoolVoice ==
    /\ last.op # "trap"
    /\ last.op = "allocate" => last.ret \in DOMAIN voices


\* C40: a controller 104 message handled while the current program is 1
\* changes no voice and writes no program, and so does one handled before
\* any controller 103 message, whatever the current program.
C40_PasteProtected ==
    [][(/\ last'.op = "handleCC"
        /\ last'.note = 104
        /\ app.currentProgram_ = 1 \/ ~copySeen)
            => /\ synths' = synths
               /\ saved' = saved
               /\ app' = app]_vars

\* A paste with a value above 63 was refused for program 1, with a storage
\* and a clipboard whose program is not that of the voices; before it a
\* paste into program 2 was saved.
C40_Witness ==
    /\ last.op = "handleCC"
    /\ last.note = 104
    /\ last.data = 127
    /\ app.currentProgram_ = 1
    /\ app.programStorage_
    /\ app.clipboardSet
    /\ app.clipboard_.hasData_
    /\ app.clipboard_.clipboard_ # captureFromVoices(ProgramData, synths)
    /\ saved = {2}

====
